---- MODULE Spec2Model ----
(***************************************************************************)
(* Model of kudu::tablet::MvccManager / MvccSnapshot (src/kudu/tablet/     *)
(* mvcc.cc).  One action per public operation of the manager; every        *)
(* operation runs under lock_, so each is one atomic step, except Close()  *)
(* (which stores open_ before it takes the lock) and the wait calls (which *)
(* release the lock while parked on their latch).                          *)
(*                                                                         *)
(* Timestamps are unsigned integers kMin..kMax.  The 64-bit width of       *)
(* Timestamp::val_type is scaled down to the range 0..MaxTs; arithmetic    *)
(* wraps modulo kMax + 1 as it does modulo 2^64 in the program.            *)
(***************************************************************************)
EXTENDS Integers, Sequences, FiniteSets

\* ---------------------------------------------------------------- bounds
MaxTs == 3
NumThreads == 1

\* ------------------------------------------------------------- constants
kMin == 0
kInitialTimestamp == 1
kMax == MaxTs

Ts == kMin..kMax
Threads == 1..NumThreads

VARIABLES
    timestamps_in_flight_,              \* InFlightMap: ts -> NONE/RESERVED/APPLYING
    earliest_in_flight_,
    new_op_timestamp_exc_lower_bound_,
    open_,
    cur_snap_,                          \* the live MvccSnapshot
    waiters_,                           \* sequence of thread ids (WaitingState*)
    threads,                            \* per waiting thread: position in WaitUntil
    close_pc,                           \* position of a Close() call
    crashed,                            \* a CHECK / LOG(FATAL) fired
    commit_returned,                    \* history: timestamps whose CommitOp returned
    taken_snap,                         \* the caller's MvccSnapshot (*snap of TakeSnapshot)
    close_returned,                     \* history: a Close() call has returned
    scoped,                             \* ScopedOp handles: ts -> none/live/done
    mvcc_op_,                           \* WriteOpState: <<t>> owns the handle at t, <<>> is nullptr
    resolve_calls,                      \* history: ts -> CommitOp/AbortOp calls made for the op
    highest_txn_id_,                    \* TxnStatusManager
    txns_by_id_,                        \* txn id -> committed in-memory state, NONE if absent
    participants,                       \* txn id -> tablet -> in-memory participant state
    status_tablet_,                     \* the registry: persisted txn and participant states
    calls,                              \* per caller: position in a TxnStatusManager call
    load_v,                             \* LoadFromTablet: the visitor's contents, or NoLoad
    begun,                              \* history: BeginTransaction calls that returned OK
    txn_last,                           \* history: the last call that returned
    lastOp                              \* history: the operation that produced the state

vars == <<timestamps_in_flight_, earliest_in_flight_,
          new_op_timestamp_exc_lower_bound_, open_, cur_snap_, waiters_,
          threads, close_pc, crashed, commit_returned, taken_snap,
          close_returned, scoped, mvcc_op_, resolve_calls, lastOp,
          highest_txn_id_, txns_by_id_, participants, status_tablet_, calls,
          load_v, begun, txn_last>>

txnVars == <<highest_txn_id_, txns_by_id_, participants, status_tablet_,
             calls, load_v, begun, txn_last>>

writeVars == <<mvcc_op_, resolve_calls>>

mgrVars == <<timestamps_in_flight_, earliest_in_flight_,
             new_op_timestamp_exc_lower_bound_, cur_snap_>>

ALL_COMMITTED == "ALL_COMMITTED"
NONE_APPLYING == "NONE_APPLYING"
RESERVED == "RESERVED"
APPLYING == "APPLYING"
NONE == "NONE"

Op(name, t) == [op |-> name, ts |-> t]

\* ------------------------------------------------------------ MvccSnapshot

IsCommittedFallback(snap, t) ==
    \E i \in 1..Len(snap.committed_timestamps_) : snap.committed_timestamps_[i] = t

IsCommitted(snap, t) ==
    \/ t < snap.all_committed_before_
    \/ IsCommittedFallback(snap, t)

MayHaveCommittedOpsAtOrAfter(snap, t) == t < snap.none_committed_at_or_after_

\* Mutant of MayHaveUncommittedOpsAtOrBefore: a timestamp equal to
\* all_committed_before_ is never reported.
MayHaveUncommittedOpsAtOrBefore_StrictlyAbove(snap, t) ==
    t > snap.all_committed_before_

MayHaveUncommittedOpsAtOrBefore(snap, t) ==
    \/ t > snap.all_committed_before_
    \/ (t = snap.all_committed_before_ /\ ~IsCommittedFallback(snap, t))

AddCommittedTimestamp(snap, t) ==
    IF IsCommitted(snap, t) THEN snap
    ELSE [snap EXCEPT
            !.committed_timestamps_ = Append(@, t),
            !.none_committed_at_or_after_ =
                IF @ <= t THEN (t + 1) % (kMax + 1) ELSE @]

\* Mutant of FilterTimestamps: also drops the value equal to the watermark.
FilterTimestamps_DropsWatermark(v, watermark) ==
    SelectSeq(v, LAMBDA ts : ts > watermark)

\* Mutant of FilterTimestamps: nothing is removed.
FilterTimestamps_KeepsAll(v, watermark) == v

\* Remove any elements from 'v' which are < the given watermark.
FilterTimestamps(v, watermark) == SelectSeq(v, LAMBDA ts : ts >= watermark)

\* ------------------------------------------------------------- MvccManager

InFlight(tif) == {t \in Ts : tif[t] # NONE}

MinOf(S) == CHOOSE m \in S : \A x \in S : m <= x

AdvanceEarliestInFlightTimestamp(tif) ==
    IF InFlight(tif) = {} THEN kMax ELSE MinOf(InFlight(tif))

AreAllOpsCommittedUnlocked(snap, eif, ts) ==
    \/ ts < snap.all_committed_before_
    \/ ts < eif

AnyApplyingAtOrBeforeUnlocked(tif, ts) ==
    \E t \in InFlight(tif) : t <= ts

IsDoneWaitingUnlocked(wait_for, ts, snap, eif, tif) ==
    IF wait_for = ALL_COMMITTED
    THEN AreAllOpsCommittedUnlocked(snap, eif, ts)
    ELSE ~AnyApplyingAtOrBeforeUnlocked(tif, ts)

\* Mutant of CleanTime: ignores the in-flight ops.
CleanTime_IgnoresInFlight(eif, lowb) == lowb

\* Mutant of CleanTime: takes the larger of the two watermarks.
CleanTime_TakesLarger(eif, lowb) == IF eif < lowb THEN lowb ELSE eif

\* The watermark part of AdjustCleanTimeUnlocked.
CleanTime(eif, lowb) == IF eif < lowb THEN eif ELSE lowb

AdjustedSnapshot(snap, eif, lowb) ==
    LET clean == CleanTime(eif, lowb)
        ct    == FilterTimestamps(snap.committed_timestamps_, clean)
    IN  [all_committed_before_ |-> clean,
         committed_timestamps_ |-> ct,
         none_committed_at_or_after_ |->
             IF ct = <<>> THEN clean ELSE snap.none_committed_at_or_after_]

\* Mutant of RemainingWaiters: no waiter is looked at.
RemainingWaiters_KeepsAll(ws, thr, snap, eif, tif) == ws

\* The waiter part of AdjustCleanTimeUnlocked: the waiters that stay parked.
RemainingWaiters(ws, thr, snap, eif, tif) ==
    SelectSeq(ws, LAMBDA w :
        ~IsDoneWaitingUnlocked(thr[w].wait_for, thr[w].timestamp, snap, eif, tif))

SeqRange(s) == {s[i] : i \in 1..Len(s)}

\* latch->CountDown() on every waiter that left the list 'before' for 'after'.
CountDown(thr, before, after) ==
    [w \in Threads |->
        IF w \in SeqRange(before) /\ w \notin SeqRange(after)
        THEN [thr[w] EXCEPT !.latch = 0] ELSE thr[w]]

\* AdjustCleanTimeUnlocked, applied to the manager state (tif, eif, lowb).
AdjustCleanTimeUnlocked(tif, eif, lowb) ==
    LET snap == AdjustedSnapshot(cur_snap_, eif, lowb)
        ws   == RemainingWaiters(waiters_, threads, snap, eif, tif)
    IN  /\ cur_snap_' = snap
        /\ waiters_' = ws
        /\ threads' = CountDown(threads, waiters_, ws)

\* MvccSnapshot::MvccSnapshot(): the snapshot a caller holds before it is
\* filled in by TakeSnapshot.
DefaultSnapshot == [all_committed_before_ |-> kInitialTimestamp,
                    committed_timestamps_ |-> <<>>,
                    none_committed_at_or_after_ |-> kInitialTimestamp]

\* ===================================================================
\* kudu::transactions::TxnStatusManager (src/kudu/transactions/
\* txn_status_manager.cc).  highest_txn_id_ and txns_by_id_ are protected by
\* lock_; every entry's state is guarded by its own copy-on-write lock: a
\* writer works on a private copy that becomes visible when it commits the
\* lock, and the commit waits until no reader holds the entry.  All calls
\* are made by the transaction's owner.
\* ===================================================================
MaxTxnId == 1
NumTablets == 1
NumCallers == 2

TxnIds == 0..MaxTxnId
Tablets == 1..NumTablets
Callers == 1..NumCallers

\* TxnStatePB, plus the marker of an absent entry.
UNKNOWN == "UNKNOWN"
OPEN == "OPEN"
COMMIT_IN_PROGRESS == "COMMIT_IN_PROGRESS"
COMMITTED == "COMMITTED"
ABORTED == "ABORTED"
NoEntry == "NO_ENTRY"

NoLoad == [pc |-> "idle"]

IdleCall == [pc |-> "idle", op |-> "none", txn_id |-> 0, tablet |-> 1,
             seen |-> -1]

\* TxnStatusManager::TxnStatusManager(): highest_txn_id_(-1), no entries; the
\* status tablet is empty.
TxnInit ==
    /\ highest_txn_id_ = -1
    /\ txns_by_id_ = [i \in TxnIds |-> NoEntry]
    /\ participants = [i \in TxnIds |-> [p \in Tablets |-> NoEntry]]
    /\ status_tablet_ = [txns |-> [i \in TxnIds |-> NoEntry],
                         prts |-> [i \in TxnIds |-> [p \in Tablets |-> NoEntry]]]
    /\ calls = [c \in Callers |-> IdleCall]
    /\ load_v = NoLoad
    /\ begun = [i \in TxnIds |-> [ok |-> 0, failed |-> FALSE]]
    /\ txn_last = [op |-> "init", txn_id |-> 0, tablet |-> 1, status |-> "OK",
                   wrote |-> FALSE]

IdleThread == [pc |-> "idle", wait_for |-> ALL_COMMITTED, timestamp |-> kMin,
               latch |-> 1, status |-> "none"]

MvccInit ==
    /\ timestamps_in_flight_ = [t \in Ts |-> NONE]
    /\ earliest_in_flight_ = kMax
    /\ new_op_timestamp_exc_lower_bound_ = kMin
    /\ open_ = TRUE
    /\ cur_snap_ = [all_committed_before_ |-> kInitialTimestamp,
                    committed_timestamps_ |-> <<>>,
                    none_committed_at_or_after_ |-> kInitialTimestamp]
    /\ waiters_ = <<>>
    /\ threads = [w \in Threads |-> IdleThread]
    /\ close_pc = "idle"
    /\ crashed = FALSE
    /\ commit_returned = {}
    /\ taken_snap = DefaultSnapshot
    /\ close_returned = FALSE
    /\ scoped = [t \in Ts |-> "none"]
    /\ lastOp = Op("init", kMin)

\* WriteOpState::WriteOpState(): mvcc_op_(nullptr).
WriteInit ==
    /\ mvcc_op_ = <<>>
    /\ resolve_calls = [t \in Ts |-> 0]

Init ==
    /\ MvccInit
    /\ WriteInit
    /\ TxnInit

\* A manager after LoadFromTablet read a status tablet that holds the OPEN
\* transaction 0 with one participant; a participant row may carry any state.
LoadedStates == {OPEN, COMMIT_IN_PROGRESS, COMMITTED, ABORTED}

InitLoaded ==
    /\ MvccInit
    /\ WriteInit
    /\ \E q \in LoadedStates \ {OPEN} :
         /\ txns_by_id_ = [i \in TxnIds |-> IF i = 0 THEN OPEN ELSE NoEntry]
         /\ participants = [i \in TxnIds |-> [p \in Tablets |->
                                IF i = 0 /\ p = 1 THEN q ELSE NoEntry]]
         /\ status_tablet_ = [txns |-> txns_by_id_, prts |-> participants]
    /\ highest_txn_id_ = 0
    /\ calls = [c \in Callers |-> IdleCall]
    /\ load_v = NoLoad
    /\ begun = [i \in TxnIds |-> [ok |-> 0, failed |-> FALSE]]
    /\ txn_last = [op |-> "LoadFromTablet", txn_id |-> 0, tablet |-> 1,
                   status |-> "OK", wrote |-> FALSE]

Fatal(name, t) ==
    /\ crashed' = TRUE
    /\ lastOp' = Op("Fatal", kMin)
    /\ UNCHANGED <<mgrVars, open_, waiters_, threads, close_pc, commit_returned, taken_snap, close_returned>>

\* Mutant of InitOpOk: the exclusive lower bound is not checked.
InitOpOk_IgnoresLowerBound(t) ==
    timestamps_in_flight_[t] = NONE

InitOpOk(t) ==
    /\ ~(t <= new_op_timestamp_exc_lower_bound_)
    /\ timestamps_in_flight_[t] = NONE

StartOpBody(t) ==
    /\ ~crashed
    /\ IF IsCommitted(cur_snap_, t) \/ ~InitOpOk(t)
       THEN Fatal("StartOp", t)
       ELSE /\ earliest_in_flight_' =
                   IF t < earliest_in_flight_ THEN t ELSE earliest_in_flight_
            /\ timestamps_in_flight_' = [timestamps_in_flight_ EXCEPT ![t] = RESERVED]
            /\ lastOp' = Op("StartOp", t)
            /\ UNCHANGED <<new_op_timestamp_exc_lower_bound_, open_, cur_snap_,
                           waiters_, threads, close_pc, crashed, commit_returned, taken_snap, close_returned>>

StartOp(t) == StartOpBody(t) /\ UNCHANGED <<scoped, writeVars, txnVars>>

\* Mutant of StartApplyingOp: only the lookup is checked, not the state.
StartApplyingOp_NoStateCheck(t) ==
    /\ ~crashed
    /\ UNCHANGED <<scoped, writeVars, txnVars>>
    /\ IF timestamps_in_flight_[t] = NONE
       THEN Fatal("StartApplyingOp", t)
       ELSE /\ timestamps_in_flight_' = [timestamps_in_flight_ EXCEPT ![t] = APPLYING]
            /\ lastOp' = Op("StartApplyingOp", t)
            /\ UNCHANGED <<earliest_in_flight_, new_op_timestamp_exc_lower_bound_,
                           open_, cur_snap_, waiters_, threads, close_pc, crashed,
                           commit_returned, taken_snap, close_returned>>

StartApplyingOpBody(t) ==
    /\ ~crashed
    /\ IF timestamps_in_flight_[t] # RESERVED
       THEN Fatal("StartApplyingOp", t)
       ELSE /\ timestamps_in_flight_' = [timestamps_in_flight_ EXCEPT ![t] = APPLYING]
            /\ lastOp' = Op("StartApplyingOp", t)
            /\ UNCHANGED <<earliest_in_flight_, new_op_timestamp_exc_lower_bound_,
                           open_, cur_snap_, waiters_, threads, close_pc, crashed,
                           commit_returned, taken_snap, close_returned>>

StartApplyingOp(t) == StartApplyingOpBody(t) /\ UNCHANGED <<scoped, writeVars, txnVars>>

\* Mutant of AbortOp: the state is checked before open_ is looked at.
AbortOp_ChecksStateWhenClosed(t) ==
    /\ ~crashed
    /\ UNCHANGED <<scoped, writeVars, txnVars>>
    /\ IF timestamps_in_flight_[t] # RESERVED
       THEN Fatal("AbortOp", t)
       ELSE LET tif == [timestamps_in_flight_ EXCEPT ![t] = NONE] IN
            /\ timestamps_in_flight_' = tif
            /\ earliest_in_flight_' =
                   IF open_ /\ earliest_in_flight_ = t
                   THEN AdvanceEarliestInFlightTimestamp(tif)
                   ELSE earliest_in_flight_
            /\ lastOp' = Op("AbortOp", t)
            /\ UNCHANGED <<new_op_timestamp_exc_lower_bound_, open_, cur_snap_,
                           waiters_, threads, close_pc, crashed, commit_returned,
                           taken_snap, close_returned>>

AbortOpBody(t) ==
    /\ ~crashed
    /\ IF timestamps_in_flight_[t] = NONE
       THEN Fatal("AbortOp", t)
       ELSE LET tif == [timestamps_in_flight_ EXCEPT ![t] = NONE] IN
            IF ~open_
            THEN /\ timestamps_in_flight_' = tif
                 /\ lastOp' = Op("AbortOp", t)
                 /\ UNCHANGED <<earliest_in_flight_, new_op_timestamp_exc_lower_bound_,
                                open_, cur_snap_, waiters_, threads, close_pc,
                                crashed, commit_returned, taken_snap, close_returned>>
            ELSE IF timestamps_in_flight_[t] # RESERVED
            THEN Fatal("AbortOp", t)
            ELSE /\ timestamps_in_flight_' = tif
                 /\ earliest_in_flight_' =
                        IF earliest_in_flight_ = t
                        THEN AdvanceEarliestInFlightTimestamp(tif)
                        ELSE earliest_in_flight_
                 /\ lastOp' = Op("AbortOp", t)
                 /\ UNCHANGED <<new_op_timestamp_exc_lower_bound_, open_, cur_snap_,
                                waiters_, threads, close_pc, crashed, commit_returned, taken_snap, close_returned>>

\* Mutant of AbortOp: clean time is recomputed after the removal.
AbortOp_AdjustsCleanTime(t) ==
    /\ ~crashed
    /\ UNCHANGED <<scoped, writeVars, txnVars>>
    /\ IF timestamps_in_flight_[t] # RESERVED
       THEN Fatal("AbortOp", t)
       ELSE LET tif == [timestamps_in_flight_ EXCEPT ![t] = NONE]
                eif == IF earliest_in_flight_ = t
                       THEN AdvanceEarliestInFlightTimestamp(tif)
                       ELSE earliest_in_flight_
            IN  /\ timestamps_in_flight_' = tif
                /\ earliest_in_flight_' = eif
                /\ AdjustCleanTimeUnlocked(tif, eif, new_op_timestamp_exc_lower_bound_)
                /\ lastOp' = Op("AbortOp", t)
                /\ UNCHANGED <<new_op_timestamp_exc_lower_bound_, open_, close_pc,
                               crashed, commit_returned, taken_snap, close_returned>>

AbortOp(t) == AbortOpBody(t) /\ UNCHANGED <<scoped, writeVars, txnVars>>

CommitOpBody(t) ==
    /\ ~crashed
    /\ IF timestamps_in_flight_[t] # APPLYING
       THEN Fatal("CommitOp", t)
       ELSE LET was_earliest == (earliest_in_flight_ = t)
                tif  == [timestamps_in_flight_ EXCEPT ![t] = NONE]
                snap == AddCommittedTimestamp(cur_snap_, t)
                eif  == IF was_earliest THEN AdvanceEarliestInFlightTimestamp(tif)
                        ELSE earliest_in_flight_
            IN  /\ timestamps_in_flight_' = tif
                /\ earliest_in_flight_' = eif
                /\ IF was_earliest /\ new_op_timestamp_exc_lower_bound_ >= t
                   THEN LET adj == AdjustedSnapshot(snap, eif, new_op_timestamp_exc_lower_bound_)
                            ws  == RemainingWaiters(waiters_, threads, adj, eif, tif)
                        IN  /\ cur_snap_' = adj
                            /\ waiters_' = ws
                            /\ threads' = CountDown(threads, waiters_, ws)
                   ELSE /\ cur_snap_' = snap
                        /\ UNCHANGED <<waiters_, threads>>
                /\ commit_returned' = commit_returned \cup {t}
                /\ lastOp' = Op("CommitOp", t)
                /\ UNCHANGED <<new_op_timestamp_exc_lower_bound_, open_, close_pc, crashed,
                               taken_snap, close_returned>>

\* Mutant of CommitOp: clean time is recomputed after every commit.
CommitOp_AlwaysRecomputes(t) ==
    /\ ~crashed
    /\ UNCHANGED <<scoped, writeVars, txnVars>>
    /\ IF timestamps_in_flight_[t] # APPLYING
       THEN Fatal("CommitOp", t)
       ELSE LET was_earliest == (earliest_in_flight_ = t)
                tif  == [timestamps_in_flight_ EXCEPT ![t] = NONE]
                snap == AddCommittedTimestamp(cur_snap_, t)
                eif  == IF was_earliest THEN AdvanceEarliestInFlightTimestamp(tif)
                        ELSE earliest_in_flight_
                adj  == AdjustedSnapshot(snap, eif, new_op_timestamp_exc_lower_bound_)
                ws   == RemainingWaiters(waiters_, threads, adj, eif, tif)
            IN  /\ timestamps_in_flight_' = tif
                /\ earliest_in_flight_' = eif
                /\ cur_snap_' = adj
                /\ waiters_' = ws
                /\ threads' = CountDown(threads, waiters_, ws)
                /\ commit_returned' = commit_returned \cup {t}
                /\ lastOp' = Op("CommitOp", t)
                /\ UNCHANGED <<new_op_timestamp_exc_lower_bound_, open_, close_pc, crashed,
                               taken_snap, close_returned>>

CommitOp(t) == CommitOpBody(t) /\ UNCHANGED <<scoped, writeVars, txnVars>>

\* Mutant of AdjustNewOpLowerBound: no comparison, the bound is always set.
AdjustNewOpLowerBound_AlwaysSets(t) ==
    /\ ~crashed
    /\ lastOp' = Op("AdjustNewOpLowerBound", t)
    /\ new_op_timestamp_exc_lower_bound_' = t
    /\ AdjustCleanTimeUnlocked(timestamps_in_flight_, earliest_in_flight_, t)
    /\ UNCHANGED <<timestamps_in_flight_, earliest_in_flight_, open_,
                   close_pc, crashed, commit_returned, taken_snap, close_returned,
                   scoped, writeVars, txnVars>>

\* Mutant of AdjustNewOpLowerBound: the backward branch does not return.
AdjustNewOpLowerBound_NoEarlyReturn(t) ==
    /\ ~crashed
    /\ lastOp' = Op("AdjustNewOpLowerBound", t)
    /\ new_op_timestamp_exc_lower_bound_' =
           IF new_op_timestamp_exc_lower_bound_ <= t
           THEN t ELSE new_op_timestamp_exc_lower_bound_
    /\ AdjustCleanTimeUnlocked(timestamps_in_flight_, earliest_in_flight_,
                               new_op_timestamp_exc_lower_bound_')
    /\ UNCHANGED <<timestamps_in_flight_, earliest_in_flight_, open_,
                   close_pc, crashed, commit_returned, taken_snap, close_returned,
                   scoped, writeVars, txnVars>>

\* Mutant of AdjustNewOpLowerBound: the caller's snapshot shares the storage
\* of cur_snap_, so the recomputed clean time shows through it.
AdjustNewOpLowerBound_SharedSnapshot(t) ==
    /\ ~crashed
    /\ lastOp' = Op("AdjustNewOpLowerBound", t)
    /\ IF new_op_timestamp_exc_lower_bound_ <= t
       THEN /\ new_op_timestamp_exc_lower_bound_' = t
            /\ AdjustCleanTimeUnlocked(timestamps_in_flight_, earliest_in_flight_, t)
            /\ taken_snap' = cur_snap_'
            /\ UNCHANGED <<timestamps_in_flight_, earliest_in_flight_, open_,
                           close_pc, crashed, commit_returned, close_returned,
                   scoped, writeVars, txnVars>>
       ELSE UNCHANGED <<mgrVars, open_, waiters_, threads, close_pc, crashed,
                        commit_returned, taken_snap, close_returned,
                   scoped, writeVars, txnVars>>

AdjustNewOpLowerBound(t) ==
    /\ ~crashed
    /\ lastOp' = Op("AdjustNewOpLowerBound", t)
    /\ IF new_op_timestamp_exc_lower_bound_ <= t
       THEN /\ new_op_timestamp_exc_lower_bound_' = t
            /\ AdjustCleanTimeUnlocked(timestamps_in_flight_, earliest_in_flight_, t)
            /\ UNCHANGED <<timestamps_in_flight_, earliest_in_flight_, open_,
                           close_pc, crashed, commit_returned, taken_snap, close_returned,
                   scoped, writeVars, txnVars>>
       ELSE UNCHANGED <<mgrVars, open_, waiters_, threads, close_pc, crashed,
                        commit_returned, taken_snap, close_returned,
                   scoped, writeVars, txnVars>>

\* Close(): open_.store(false) happens before lock_ is taken.
CloseStore ==
    /\ ~crashed
    /\ close_pc = "idle"
    /\ open_' = FALSE
    /\ close_pc' = "stored"
    /\ lastOp' = Op("CloseStore", kMin)
    /\ UNCHANGED <<mgrVars, waiters_, threads, crashed, commit_returned, taken_snap,
                   close_returned,
                   scoped, writeVars, txnVars>>

CloseDrain ==
    /\ ~crashed
    /\ close_pc = "stored"
    /\ waiters_' = <<>>
    /\ threads' = CountDown(threads, waiters_, <<>>)
    /\ close_pc' = "idle"
    /\ close_returned' = TRUE
    /\ lastOp' = Op("CloseDrain", kMin)
    /\ UNCHANGED <<mgrVars, open_, crashed, commit_returned, taken_snap,
                   scoped, writeVars, txnVars>>

\* TakeSnapshot(snap): *snap = cur_snap_ under lock_, a copy by value.
TakeSnapshot ==
    /\ ~crashed
    /\ taken_snap' = cur_snap_
    /\ lastOp' = Op("TakeSnapshot", kMin)
    /\ UNCHANGED <<mgrVars, open_, waiters_, threads, close_pc, crashed,
                   commit_returned, close_returned,
                   scoped, writeVars, txnVars>>

CheckOpen == IF open_ THEN "OK" ELSE "Aborted"

Return(w, st) == [threads EXCEPT ![w] = [IdleThread EXCEPT !.status = st]]

\* WaitForSnapshotWithAllCommitted(ts, snapshot, deadline) -> WaitUntil entry:
\* RETURN_NOT_OK(CheckOpen()) without the lock.  The deadline is not stored:
\* it may expire at any moment the caller is parked, or never (MonoTime::Max()).
WaitForSnapshotWithAllCommitted(w, ts) ==
    /\ ~crashed
    /\ threads[w].pc = "idle"
    /\ threads' = IF open_
                  THEN [threads EXCEPT ![w] =
                          [pc |-> "wu_lock", wait_for |-> ALL_COMMITTED,
                           timestamp |-> ts, latch |-> 1, status |-> "none"]]
                  ELSE Return(w, "Aborted")
    /\ lastOp' = Op("WaitForSnapshotWithAllCommitted", ts)
    /\ UNCHANGED <<mgrVars, open_, waiters_, close_pc, crashed, commit_returned, taken_snap, close_returned,
                   scoped, writeVars, txnVars>>

\* WaitForApplyingOpsToCommit(): CheckOpen() without the lock.
WaitForApplyingOpsToCommit(w) ==
    /\ ~crashed
    /\ threads[w].pc = "idle"
    /\ threads' = IF open_
                  THEN [threads EXCEPT ![w] =
                          [IdleThread EXCEPT !.pc = "wfa_scan",
                                             !.wait_for = NONE_APPLYING]]
                  ELSE Return(w, "Aborted")
    /\ lastOp' = Op("WaitForApplyingOpsToCommit", kMin)
    /\ UNCHANGED <<mgrVars, open_, waiters_, close_pc, crashed, commit_returned, taken_snap, close_returned,
                   scoped, writeVars, txnVars>>

MaxOf(S) == CHOOSE m \in S : \A x \in S : m >= x

\* Mutant of MaxApplying: RESERVED ops are counted too.
MaxApplying_AnyInFlight(tif) ==
    LET A == {t \in Ts : tif[t] # NONE} \cup {kMin} IN MaxOf(A)

\* highest timestamp of an APPLYING op, kMin if there is none
MaxApplying(tif) ==
    LET A == {t \in Ts : tif[t] = APPLYING} \cup {kMin} IN MaxOf(A)

\* WaitForApplyingOpsToCommit(): the scan under the lock, then the call of
\* WaitUntil(NONE_APPLYING, wait_for, MonoTime::Max()) up to its CheckOpen().
WaitForApplyingScan(w) ==
    /\ ~crashed
    /\ threads[w].pc = "wfa_scan"
    /\ LET wait_for == MaxApplying(timestamps_in_flight_) IN
       threads' = IF wait_for = kMin
                  THEN Return(w, "OK")
                  ELSE [threads EXCEPT ![w].pc = "wu_open", ![w].timestamp = wait_for]
    /\ lastOp' = Op("WaitForApplyingScan", kMin)
    /\ UNCHANGED <<mgrVars, open_, waiters_, close_pc, crashed, commit_returned, taken_snap, close_returned,
                   scoped, writeVars, txnVars>>

\* WaitUntil(): RETURN_NOT_OK(CheckOpen()) on the NONE_APPLYING path.
WaitUntilCheckOpen(w) ==
    /\ ~crashed
    /\ threads[w].pc = "wu_open"
    /\ threads' = IF open_
                  THEN [threads EXCEPT ![w].pc = "wu_lock"]
                  ELSE Return(w, "Aborted")
    /\ lastOp' = Op("WaitUntilCheckOpen", kMin)
    /\ UNCHANGED <<mgrVars, open_, waiters_, close_pc, crashed, commit_returned, taken_snap, close_returned,
                   scoped, writeVars, txnVars>>

\* WaitUntil(): under the lock, return OK if done, else enqueue and park.
WaitUntilEnqueue(w) ==
    /\ ~crashed
    /\ threads[w].pc = "wu_lock"
    /\ IF IsDoneWaitingUnlocked(threads[w].wait_for, threads[w].timestamp,
                                cur_snap_, earliest_in_flight_, timestamps_in_flight_)
       THEN /\ threads' = Return(w, "OK")
            /\ UNCHANGED waiters_
       ELSE /\ waiters_' = Append(waiters_, w)
            /\ threads' = [threads EXCEPT ![w].pc = "blocked"]
    /\ lastOp' = Op("WaitUntilEnqueue", kMin)
    /\ UNCHANGED <<mgrVars, open_, close_pc, crashed, commit_returned, taken_snap, close_returned,
                   scoped, writeVars, txnVars>>

\* Mutant of WaitUntilWoken: a woken waiter returns OK without CheckOpen().
WaitUntilWoken_SkipsCheckOpen(w) ==
    /\ ~crashed
    /\ threads[w].pc = "blocked"
    /\ threads[w].latch = 0
    /\ threads' = Return(w, "OK")
    /\ lastOp' = Op("WaitUntilWoken", kMin)
    /\ UNCHANGED <<mgrVars, open_, waiters_, close_pc, crashed, commit_returned, taken_snap,
                   close_returned, scoped, writeVars, txnVars>>

\* WaitUntil(): latch->WaitUntil(deadline) returned true.
WaitUntilWoken(w) ==
    /\ ~crashed
    /\ threads[w].pc = "blocked"
    /\ threads[w].latch = 0
    /\ threads' = Return(w, CheckOpen)
    /\ lastOp' = Op("WaitUntilWoken", kMin)
    /\ UNCHANGED <<mgrVars, open_, waiters_, close_pc, crashed, commit_returned, taken_snap, close_returned,
                   scoped, writeVars, txnVars>>

\* WaitUntil(): latch->WaitUntil(deadline) returned false (deadline passed).
\* WaitForApplyingOpsToCommit passes MonoTime::Max(), which never passes.
WaitUntilDeadline(w) ==
    /\ ~crashed
    /\ threads[w].pc = "blocked"
    /\ threads[w].wait_for = ALL_COMMITTED
    /\ threads[w].latch = 1
    /\ threads' = [threads EXCEPT ![w].pc = "timed_out"]
    /\ lastOp' = Op("WaitUntilDeadline", kMin)
    /\ UNCHANGED <<mgrVars, open_, waiters_, close_pc, crashed, commit_returned, taken_snap, close_returned,
                   scoped, writeVars, txnVars>>

\* Mutant of WaitUntilCleanup: the latch is not looked at after the timeout.
WaitUntilCleanup_IgnoresLatch(w) ==
    /\ ~crashed
    /\ threads[w].pc = "timed_out"
    /\ waiters_' = SelectSeq(waiters_, LAMBDA x : x # w)
    /\ threads' = Return(w, "TimedOut")
    /\ lastOp' = Op("WaitUntilCleanup", kMin)
    /\ UNCHANGED <<mgrVars, open_, close_pc, crashed, commit_returned, taken_snap,
                   close_returned,
                   scoped, writeVars, txnVars>>

\* Mutant of WaitUntilCleanup: the timed-out waiter returns without erasing
\* its record from the waiter list.
WaitUntilCleanup_KeepsRecord(w) ==
    /\ ~crashed
    /\ threads[w].pc = "timed_out"
    /\ threads' = Return(w, IF threads[w].latch = 0 THEN CheckOpen ELSE "TimedOut")
    /\ lastOp' = Op("WaitUntilCleanup", kMin)
    /\ UNCHANGED <<mgrVars, open_, waiters_, close_pc, crashed, commit_returned, taken_snap,
                   close_returned, scoped, writeVars, txnVars>>

\* WaitUntil(): after the timeout, under the lock again.
WaitUntilCleanup(w) ==
    /\ ~crashed
    /\ threads[w].pc = "timed_out"
    /\ IF threads[w].latch = 0
       THEN /\ threads' = Return(w, CheckOpen)
            /\ UNCHANGED waiters_
       ELSE /\ waiters_' = SelectSeq(waiters_, LAMBDA x : x # w)
            /\ threads' = Return(w, "TimedOut")
    /\ lastOp' = Op("WaitUntilCleanup", kMin)
    /\ UNCHANGED <<mgrVars, open_, close_pc, crashed, commit_returned, taken_snap, close_returned,
                   scoped, writeVars, txnVars>>

Next ==
    \/ \E t \in Ts : StartOp(t)
    \/ \E t \in Ts : StartApplyingOp(t)
    \/ \E t \in Ts : AbortOp(t)
    \/ \E t \in Ts : CommitOp(t)
    \/ \E t \in Ts : AdjustNewOpLowerBound(t)
    \/ CloseStore
    \/ CloseDrain
    \/ \E w \in Threads, t \in Ts : WaitForSnapshotWithAllCommitted(w, t)
    \/ \E w \in Threads : WaitForApplyingOpsToCommit(w)
    \/ \E w \in Threads : WaitForApplyingScan(w)
    \/ \E w \in Threads : WaitUntilCheckOpen(w)
    \/ \E w \in Threads : WaitUntilEnqueue(w)
    \/ \E w \in Threads : WaitUntilWoken(w)
    \/ \E w \in Threads : WaitUntilDeadline(w)
    \/ \E w \in Threads : WaitUntilCleanup(w)

Spec == Init /\ [][Next]_vars

NextMgr ==
    \/ \E t \in Ts : StartOp(t)
    \/ \E t \in Ts : StartApplyingOp(t)
    \/ \E t \in Ts : AbortOp(t)
    \/ \E t \in Ts : CommitOp(t)
    \/ \E t \in Ts : AdjustNewOpLowerBound(t)
    \/ CloseStore
    \/ CloseDrain

SpecMgr == Init /\ [][NextMgr]_vars

\* ---------------------------------------------------------------- ScopedOp
\* scoped[t] is the handle constructed at timestamp t: "none" (no handle),
\* "live" (done_ = false) or "done" (done_ = true, not yet destroyed).

\* ScopedOp::ScopedOp(manager, timestamp): done_(false), manager_->StartOp.
ScopedOp(t) ==
    /\ UNCHANGED <<writeVars, txnVars>>
    /\ scoped[t] = "none"
    /\ StartOpBody(t)
    /\ scoped' = IF crashed' THEN scoped ELSE [scoped EXCEPT ![t] = "live"]

\* ScopedOp::StartApplying()
ScopedOpStartApplying(t) ==
    /\ scoped[t] # "none"
    /\ StartApplyingOpBody(t)
    /\ UNCHANGED <<scoped, writeVars, txnVars>>

\* ScopedOp::Commit(): manager_->CommitOp(timestamp_); done_ = true.
ScopedOpCommit(t) ==
    /\ UNCHANGED <<writeVars, txnVars>>
    /\ scoped[t] # "none"
    /\ CommitOpBody(t)
    /\ scoped' = IF crashed' THEN scoped ELSE [scoped EXCEPT ![t] = "done"]

\* ScopedOp::Abort(): manager_->AbortOp(timestamp_); done_ = true.
ScopedOpAbort(t) ==
    /\ UNCHANGED <<writeVars, txnVars>>
    /\ scoped[t] # "none"
    /\ AbortOpBody(t)
    /\ scoped' = IF crashed' THEN scoped ELSE [scoped EXCEPT ![t] = "done"]

\* Mutant of ScopedOpDestroy: done_ is not looked at.
ScopedOpDestroy_AlwaysAborts(t) ==
    /\ UNCHANGED <<writeVars, txnVars>>
    /\ scoped[t] # "none"
    /\ AbortOpBody(t)
    /\ scoped' = IF crashed' THEN scoped ELSE [scoped EXCEPT ![t] = "none"]

\* ScopedOp::~ScopedOp(): if (!done_) Abort().
ScopedOpDestroy(t) ==
    /\ UNCHANGED <<writeVars, txnVars>>
    /\ scoped[t] # "none"
    /\ IF scoped[t] = "live"
       THEN /\ AbortOpBody(t)
            /\ scoped' = IF crashed' THEN scoped ELSE [scoped EXCEPT ![t] = "none"]
       ELSE /\ ~crashed
            /\ scoped' = [scoped EXCEPT ![t] = "none"]
            /\ lastOp' = Op("ScopedOpDestroy", t)
            /\ UNCHANGED <<mgrVars, open_, waiters_, threads, close_pc, crashed,
                           commit_returned, taken_snap, close_returned>>

\* Ops are started and resolved through ScopedOp handles only.
NextScoped ==
    \/ \E t \in Ts : ScopedOp(t)
    \/ \E t \in Ts : ScopedOpStartApplying(t)
    \/ \E t \in Ts : ScopedOpCommit(t)
    \/ \E t \in Ts : ScopedOpAbort(t)
    \/ \E t \in Ts : ScopedOpDestroy(t)
    \/ \E t \in Ts : AdjustNewOpLowerBound(t)
    \/ CloseStore
    \/ CloseDrain

SpecScoped == Init /\ [][NextScoped]_vars

\* ------------------------------------------------------------ WriteOpState
\* The write op driver's state object owns its MVCC op through
\* unique_ptr<ScopedOp> mvcc_op_.  The handle it is given was constructed by
\* the caller (ScopedOp(t) above).

OpResult == {COMMITTED, ABORTED}

\* WriteOpState::SetMvccTx(mvcc_op): DCHECK(!mvcc_op_); mvcc_op_ = move(mvcc_op).
\* With a handle already held, a build with DCHECKs dies; a build without
\* them destroys the old ScopedOp in the move assignment (~ScopedOp aborts
\* it, its done_ being false).
SetMvccTx(t) ==
    /\ UNCHANGED txnVars
    /\ ~crashed
    /\ scoped[t] = "live"
    /\ mvcc_op_ # <<t>>
    /\ IF mvcc_op_ = <<>>
       THEN /\ mvcc_op_' = <<t>>
            /\ resolve_calls' = [resolve_calls EXCEPT ![t] = 0]
            /\ lastOp' = Op("SetMvccTx", t)
            /\ UNCHANGED <<mgrVars, open_, waiters_, threads, close_pc, crashed,
                           commit_returned, taken_snap, close_returned, scoped>>
       ELSE \/ /\ Fatal("SetMvccTx", t)
               /\ UNCHANGED <<scoped, writeVars>>
            \/ LET old == mvcc_op_[1] IN
               /\ AbortOpBody(old)
               /\ scoped' = IF crashed' THEN scoped ELSE [scoped EXCEPT ![old] = "none"]
               /\ mvcc_op_' = IF crashed' THEN mvcc_op_ ELSE <<t>>
               /\ resolve_calls' = IF crashed' THEN resolve_calls
                                   ELSE [resolve_calls EXCEPT ![old] = @ + 1, ![t] = 0]

\* WriteOpState::StartApplying(): CHECK_NOTNULL(mvcc_op_.get())->StartApplying().
WriteOpStateStartApplying ==
    /\ UNCHANGED <<scoped, writeVars, txnVars>>
    /\ ~crashed
    /\ IF mvcc_op_ = <<>>
       THEN Fatal("StartApplying", kMin)
       ELSE StartApplyingOpBody(mvcc_op_[1])

\* Mutant of ReleaseMvccTxn: the handle is resolved but not dropped.
ReleaseMvccTxn_KeepsHandle(result) ==
    IF mvcc_op_ # <<>>
    THEN LET t == mvcc_op_[1] IN
         /\ IF result = COMMITTED THEN CommitOpBody(t) ELSE AbortOpBody(t)
         /\ scoped' = IF crashed' THEN scoped ELSE [scoped EXCEPT ![t] = "done"]
         /\ mvcc_op_' = mvcc_op_
         /\ resolve_calls' = IF crashed' THEN resolve_calls
                             ELSE [resolve_calls EXCEPT ![t] = @ + 1]
    ELSE /\ ~crashed
         /\ lastOp' = Op("ReleaseMvccTxn", kMin)
         /\ UNCHANGED <<mgrVars, open_, waiters_, threads, close_pc, crashed,
                        commit_returned, taken_snap, close_returned, scoped, writeVars>>

\* WriteOpState::ReleaseMvccTxn(result): if (mvcc_op_) Commit() or Abort()
\* on it by result; then mvcc_op_.reset(), which destroys the ScopedOp (its
\* done_ is true, so ~ScopedOp calls nothing) and leaves nullptr.
ReleaseMvccTxn(result) ==
    IF mvcc_op_ # <<>>
    THEN LET t == mvcc_op_[1] IN
         /\ IF result = COMMITTED THEN CommitOpBody(t) ELSE AbortOpBody(t)
         /\ scoped' = IF crashed' THEN scoped ELSE [scoped EXCEPT ![t] = "none"]
         /\ mvcc_op_' = IF crashed' THEN mvcc_op_ ELSE <<>>
         /\ resolve_calls' = IF crashed' THEN resolve_calls
                             ELSE [resolve_calls EXCEPT ![t] = @ + 1]
    ELSE /\ ~crashed
         /\ lastOp' = Op("ReleaseMvccTxn", kMin)
         /\ UNCHANGED <<mgrVars, open_, waiters_, threads, close_pc, crashed,
                        commit_returned, taken_snap, close_returned, scoped, writeVars>>

\* WriteOpState::CommitOrAbort(result), called by WriteOp::Finish(result):
\* ReleaseMvccTxn(result), then the row and schema locks and the RPC fields.
CommitOrAbort(result) ==
    /\ UNCHANGED txnVars
    /\ ReleaseMvccTxn(result)

\* WriteOp::AbortPrepare(): state()->ReleaseMvccTxn(OpResult::ABORTED).
AbortPrepare ==
    /\ UNCHANGED txnVars
    /\ ReleaseMvccTxn(ABORTED)

\* WriteOpState::Reset(): CommitOrAbort(Op::ABORTED), then the other fields.
Reset ==
    /\ UNCHANGED txnVars
    /\ CommitOrAbort(ABORTED)

\* WriteOpState::~WriteOpState(): Reset().  The state the model goes on with
\* is that of a newly constructed WriteOpState.
WriteOpStateDestroy ==
    /\ UNCHANGED txnVars
    /\ Reset

\* One write op driver at a time on the manager.
NextWrite ==
    \/ \E t \in Ts : ScopedOp(t)
    \/ \E t \in Ts : SetMvccTx(t)
    \/ WriteOpStateStartApplying
    \/ \E result \in OpResult : CommitOrAbort(result)
    \/ AbortPrepare
    \/ Reset
    \/ WriteOpStateDestroy
    \/ \E t \in Ts : AdjustNewOpLowerBound(t)
    \/ CloseStore
    \/ CloseDrain

SpecWrite == Init /\ [][NextWrite]_vars

\* The manager operations and a caller that takes snapshots.
NextSnap ==
    \/ NextMgr
    \/ TakeSnapshot

SpecSnap == Init /\ [][NextSnap]_vars

TypeOK ==
    /\ timestamps_in_flight_ \in [Ts -> {NONE, RESERVED, APPLYING}]
    /\ earliest_in_flight_ \in Ts
    /\ new_op_timestamp_exc_lower_bound_ \in Ts
    /\ open_ \in BOOLEAN
    /\ cur_snap_.all_committed_before_ \in Ts
    /\ cur_snap_.none_committed_at_or_after_ \in Ts
    /\ SeqRange(cur_snap_.committed_timestamps_) \subseteq Ts
    /\ SeqRange(waiters_) \subseteq Threads
    /\ crashed \in BOOLEAN
    /\ commit_returned \subseteq Ts

\* ===================================================================
\* TxnStatusManager operations
\* ===================================================================

mvccVars == <<timestamps_in_flight_, earliest_in_flight_,
              new_op_timestamp_exc_lower_bound_, open_, cur_snap_, waiters_,
              threads, close_pc, commit_returned, taken_snap, close_returned,
              scoped, lastOp>>

\* A call of caller c returns status st; wrote records whether the call had
\* written to the status tablet.
TxnReturn(c, name, i, p, st) ==
    /\ calls' = [calls EXCEPT ![c] = IdleCall]
    /\ txn_last' = [op |-> name, txn_id |-> i, tablet |-> p, status |-> st,
                    wrote |-> calls[c].pc \in {"begin_emplace", "txn_commit",
                                               "prt_commit"}]

TxnEnter(c, name, i, p, pc) ==
    calls' = [calls EXCEPT ![c] = [pc |-> pc, op |-> name, txn_id |-> i,
                                   tablet |-> p, seen |-> highest_txn_id_]]

TxnStep(c, pc) == calls' = [calls EXCEPT ![c].pc = pc]

\* Callers holding the READ lock of transaction entry i.
TxnReaders(i) ==
    {c \in Callers : /\ calls[c].txn_id = i
                     /\ calls[c].pc \in {"prt_lock", "prt_persist", "prt_commit"}}

\* A caller holds the WRITE lock of transaction entry i.
TxnWriteLocked(i) ==
    \E c \in Callers : /\ calls[c].txn_id = i
                       /\ calls[c].pc \in {"txn_persist", "txn_commit"}

\* A caller holds the WRITE lock of participant entry (i, p).
PrtWriteLocked(i, p) ==
    \E c \in Callers : /\ calls[c].txn_id = i
                       /\ calls[c].tablet = p
                       /\ calls[c].pc \in {"prt_persist", "prt_commit"}

\* A write to the status tablet that fails leaves the tablet as it was.
PersistFails(c, name) ==
    /\ TxnReturn(c, name, calls[c].txn_id, calls[c].tablet, "PersistError")
    /\ UNCHANGED status_tablet_

\* ---- BeginTransaction ----------------------------------------------
\* The first critical section: the check against highest_txn_id_ and its
\* advance.
BeginTransaction_NoIdCheck(c, i) ==
    /\ ~crashed
    /\ calls[c].pc = "idle"
    /\ highest_txn_id_' = i
    /\ TxnEnter(c, "BeginTransaction", i, 1, "begin_persist")
    /\ UNCHANGED <<txn_last, txns_by_id_, participants, status_tablet_, load_v,
                   begun, mvccVars, writeVars, crashed>>

BeginTransaction(c, i) ==
    /\ ~crashed
    /\ calls[c].pc = "idle"
    /\ IF i <= highest_txn_id_
       THEN /\ TxnReturn(c, "BeginTransaction", i, 1, "InvalidArgument")
            /\ UNCHANGED highest_txn_id_
       ELSE /\ highest_txn_id_' = i
            /\ TxnEnter(c, "BeginTransaction", i, 1, "begin_persist")
            /\ UNCHANGED txn_last
    /\ UNCHANGED <<txns_by_id_, participants, status_tablet_, load_v, begun,
                   mvccVars, writeVars, crashed>>

\* status_tablet_.AddNewTransaction(txn_id, user), outside lock_.
BeginPersist_RollsBack(c) ==
    /\ ~crashed
    /\ calls[c].pc = "begin_persist"
    /\ \E ok \in BOOLEAN :
         IF ok
         THEN /\ status_tablet_' =
                    [status_tablet_ EXCEPT !.txns[calls[c].txn_id] = OPEN]
              /\ TxnStep(c, "begin_emplace")
              /\ UNCHANGED <<txn_last, begun, highest_txn_id_>>
         ELSE /\ PersistFails(c, "BeginTransaction")
              /\ highest_txn_id_' = calls[c].seen
              /\ begun' = [begun EXCEPT ![calls[c].txn_id].failed = TRUE]
    /\ UNCHANGED <<txns_by_id_, participants, load_v,
                   mvccVars, writeVars, crashed>>

BeginPersist(c) ==
    /\ ~crashed
    /\ calls[c].pc = "begin_persist"
    /\ \E ok \in BOOLEAN :
         IF ok
         THEN /\ status_tablet_' =
                    [status_tablet_ EXCEPT !.txns[calls[c].txn_id] = OPEN]
              /\ TxnStep(c, "begin_emplace")
              /\ UNCHANGED <<txn_last, begun>>
         ELSE /\ PersistFails(c, "BeginTransaction")
              /\ begun' = [begun EXCEPT ![calls[c].txn_id].failed = TRUE]
    /\ UNCHANGED <<highest_txn_id_, txns_by_id_, participants, load_v,
                   mvccVars, writeVars, crashed>>

\* The second critical section: EmplaceOrDie of the new OPEN entry.
BeginEmplace(c) ==
    /\ ~crashed
    /\ calls[c].pc = "begin_emplace"
    /\ LET i == calls[c].txn_id IN
       IF txns_by_id_[i] # NoEntry
       THEN /\ crashed' = TRUE
            /\ UNCHANGED <<txns_by_id_, participants, calls, txn_last, begun>>
       ELSE /\ txns_by_id_' = [txns_by_id_ EXCEPT ![i] = OPEN]
            /\ participants' =
                   [participants EXCEPT ![i] = [p \in Tablets |-> NoEntry]]
            /\ TxnReturn(c, "BeginTransaction", i, 1, "OK")
            /\ begun' = [begun EXCEPT ![i].ok = IF @ < 2 THEN @ + 1 ELSE @]
            /\ UNCHANGED crashed
    /\ UNCHANGED <<highest_txn_id_, status_tablet_, load_v, mvccVars, writeVars>>

\* ---- GetTransaction ------------------------------------------------
\* The lookup every other call starts with: NotFound, or the entry.
GetTransaction_NoLookup(c, name, i, p, pc) ==
    /\ ~crashed
    /\ calls[c].pc = "idle"
    /\ TxnEnter(c, name, i, p, pc)
    /\ UNCHANGED <<txn_last, highest_txn_id_, txns_by_id_, participants,
                   status_tablet_, load_v, begun, mvccVars, writeVars, crashed>>

GetTransaction(c, name, i, p, pc) ==
    /\ ~crashed
    /\ calls[c].pc = "idle"
    /\ IF txns_by_id_[i] = NoEntry
       THEN TxnReturn(c, name, i, p, "NotFound")
       ELSE /\ TxnEnter(c, name, i, p, pc)
            /\ UNCHANGED txn_last
    /\ UNCHANGED <<highest_txn_id_, txns_by_id_, participants, status_tablet_,
                   load_v, begun, mvccVars, writeVars, crashed>>

BeginCommitTransaction(c, i) ==
    /\ calls[c].pc = "idle"
    /\ GetTransaction(c, "BeginCommitTransaction", i, 1, "txn_lock")

FinalizeCommitTransaction(c, i) ==
    /\ calls[c].pc = "idle"
    /\ GetTransaction(c, "FinalizeCommitTransaction", i, 1, "txn_lock")

AbortTransaction(c, i) ==
    /\ calls[c].pc = "idle"
    /\ GetTransaction(c, "AbortTransaction", i, 1, "txn_lock")

RegisterParticipant(c, i, p) ==
    /\ calls[c].pc = "idle"
    /\ GetTransaction(c, "RegisterParticipant", i, p, "txn_rlock")

\* The state each call moves the transaction to, and the states it may move
\* it from.
TxnTarget(name) ==
    CASE name = "BeginCommitTransaction" -> COMMIT_IN_PROGRESS
      [] name = "FinalizeCommitTransaction" -> COMMITTED
      [] name = "AbortTransaction" -> ABORTED

TxnSources_AnyState(name) == {OPEN, COMMIT_IN_PROGRESS, COMMITTED, ABORTED}

TxnSources(name) ==
    CASE name = "BeginCommitTransaction" -> {OPEN}
      [] name = "FinalizeCommitTransaction" -> {COMMIT_IN_PROGRESS}
      [] name = "AbortTransaction" -> {OPEN, COMMIT_IN_PROGRESS}

\* TransactionEntryLock txn_lock(txn, WRITE) and the checks of the state.
TxnLockAndCheck_NoEarlyOK(c) ==
    /\ ~crashed
    /\ calls[c].pc = "txn_lock"
    /\ ~TxnWriteLocked(calls[c].txn_id)
    /\ LET i == calls[c].txn_id
           name == calls[c].op
           state == txns_by_id_[i]
       IN  IF state \notin TxnSources(name)
           THEN TxnReturn(c, name, i, 1, "IllegalState")
           ELSE /\ TxnStep(c, "txn_persist")
                /\ UNCHANGED txn_last
    /\ UNCHANGED <<highest_txn_id_, txns_by_id_, participants, status_tablet_,
                   load_v, begun, mvccVars, writeVars, crashed>>

TxnLockAndCheck(c) ==
    /\ ~crashed
    /\ calls[c].pc = "txn_lock"
    /\ ~TxnWriteLocked(calls[c].txn_id)
    /\ LET i == calls[c].txn_id
           name == calls[c].op
           state == txns_by_id_[i]
       IN  IF state = TxnTarget(name)
           THEN TxnReturn(c, name, i, 1, "OK")
           ELSE IF state \notin TxnSources(name)
           THEN TxnReturn(c, name, i, 1, "IllegalState")
           ELSE /\ TxnStep(c, "txn_persist")
                /\ UNCHANGED txn_last
    /\ UNCHANGED <<highest_txn_id_, txns_by_id_, participants, status_tablet_,
                   load_v, begun, mvccVars, writeVars, crashed>>

\* status_tablet_.UpdateTransaction(txn_id, mutable_data->pb).
TxnPersist(c) ==
    /\ ~crashed
    /\ calls[c].pc = "txn_persist"
    /\ \E ok \in BOOLEAN :
         IF ok
         THEN /\ status_tablet_' = [status_tablet_ EXCEPT
                    !.txns[calls[c].txn_id] = TxnTarget(calls[c].op)]
              /\ TxnStep(c, "txn_commit")
              /\ UNCHANGED txn_last
         ELSE PersistFails(c, calls[c].op)
    /\ UNCHANGED <<highest_txn_id_, txns_by_id_, participants, load_v, begun,
                   mvccVars, writeVars, crashed>>

\* txn_lock.Commit(): waits for the readers of the entry, then publishes.
TxnCommit_IgnoresReaders(c) ==
    /\ ~crashed
    /\ calls[c].pc = "txn_commit"
    /\ txns_by_id_' =
           [txns_by_id_ EXCEPT ![calls[c].txn_id] = TxnTarget(calls[c].op)]
    /\ TxnReturn(c, calls[c].op, calls[c].txn_id, 1, "OK")
    /\ UNCHANGED <<highest_txn_id_, participants, status_tablet_, load_v,
                   begun, mvccVars, writeVars, crashed>>

TxnCommit_BeforePersist(c) ==
    /\ ~crashed
    /\ calls[c].pc = "txn_persist"
    /\ TxnReaders(calls[c].txn_id) = {}
    /\ txns_by_id_' =
           [txns_by_id_ EXCEPT ![calls[c].txn_id] = TxnTarget(calls[c].op)]
    /\ TxnReturn(c, calls[c].op, calls[c].txn_id, 1, "OK")
    /\ UNCHANGED <<highest_txn_id_, participants, status_tablet_, load_v,
                   begun, mvccVars, writeVars, crashed>>

TxnCommit(c) ==
    /\ ~crashed
    /\ calls[c].pc = "txn_commit"
    /\ TxnReaders(calls[c].txn_id) = {}
    /\ txns_by_id_' =
           [txns_by_id_ EXCEPT ![calls[c].txn_id] = TxnTarget(calls[c].op)]
    /\ TxnReturn(c, calls[c].op, calls[c].txn_id, 1, "OK")
    /\ UNCHANGED <<highest_txn_id_, participants, status_tablet_, load_v,
                   begun, mvccVars, writeVars, crashed>>

\* ---- RegisterParticipant -------------------------------------------
\* TransactionEntryLock txn_lock(txn, READ), the check that the transaction
\* is OPEN, and txn->GetOrCreateParticipant(tablet_id).
RegisterReadLock(c) ==
    /\ ~crashed
    /\ calls[c].pc = "txn_rlock"
    /\ LET i == calls[c].txn_id
           p == calls[c].tablet
       IN  IF txns_by_id_[i] # OPEN
           THEN /\ TxnReturn(c, "RegisterParticipant", i, p, "IllegalState")
                /\ UNCHANGED participants
           ELSE /\ participants' = [participants EXCEPT ![i][p] =
                                        IF @ = NoEntry THEN UNKNOWN ELSE @]
                /\ TxnStep(c, "prt_lock")
                /\ UNCHANGED txn_last
    /\ UNCHANGED <<highest_txn_id_, txns_by_id_, status_tablet_, load_v, begun,
                   mvccVars, writeVars, crashed>>

\* ParticipantEntryLock prt_lock(participant, WRITE) and the checks of the
\* participant's state.
RegisterPrtLock(c) ==
    /\ ~crashed
    /\ calls[c].pc = "prt_lock"
    /\ ~PrtWriteLocked(calls[c].txn_id, calls[c].tablet)
    /\ LET i == calls[c].txn_id
           p == calls[c].tablet
           state == participants[i][p]
       IN  IF state = OPEN
           THEN TxnReturn(c, "RegisterParticipant", i, p, "OK")
           ELSE IF state # UNKNOWN
           THEN TxnReturn(c, "RegisterParticipant", i, p, "IllegalState")
           ELSE /\ TxnStep(c, "prt_persist")
                /\ UNCHANGED txn_last
    /\ UNCHANGED <<highest_txn_id_, txns_by_id_, participants, status_tablet_,
                   load_v, begun, mvccVars, writeVars, crashed>>

\* status_tablet_.AddNewParticipant(txn_id, tablet_id).
RegisterPersist(c) ==
    /\ ~crashed
    /\ calls[c].pc = "prt_persist"
    /\ \E ok \in BOOLEAN :
         IF ok
         THEN /\ status_tablet_' = [status_tablet_ EXCEPT
                    !.prts[calls[c].txn_id][calls[c].tablet] = OPEN]
              /\ TxnStep(c, "prt_commit")
              /\ UNCHANGED txn_last
         ELSE PersistFails(c, "RegisterParticipant")
    /\ UNCHANGED <<highest_txn_id_, txns_by_id_, participants, load_v, begun,
                   mvccVars, writeVars, crashed>>

\* prt_lock.Commit(); both locks are released on return.
RegisterCommit(c) ==
    /\ ~crashed
    /\ calls[c].pc = "prt_commit"
    /\ participants' =
           [participants EXCEPT ![calls[c].txn_id][calls[c].tablet] = OPEN]
    /\ TxnReturn(c, "RegisterParticipant", calls[c].txn_id, calls[c].tablet, "OK")
    /\ UNCHANGED <<highest_txn_id_, txns_by_id_, status_tablet_, load_v, begun,
                   mvccVars, writeVars, crashed>>

\* ---- LoadFromTablet ------------------------------------------------
MaxTxn(S) == IF S = {} THEN -1 ELSE CHOOSE i \in S : \A j \in S : j <= i

\* status_tablet_.VisitTransactions(&v): the visitor builds its own map and
\* highest id from the tablet's rows.
LoadFromTablet ==
    /\ ~crashed
    /\ load_v.pc = "idle"
    /\ \E ok \in BOOLEAN :
         IF ok
         THEN /\ load_v' =
                   [pc |-> "visited",
                    highest_txn_id_ |->
                        MaxTxn({i \in TxnIds : status_tablet_.txns[i] # NoEntry}),
                    txns_by_id_ |-> status_tablet_.txns,
                    participants |-> status_tablet_.prts]
              /\ UNCHANGED txn_last
         ELSE /\ txn_last' = [op |-> "LoadFromTablet", txn_id |-> 0,
                              tablet |-> 1, status |-> "PersistError",
                              wrote |-> FALSE]
              /\ UNCHANGED load_v
    /\ UNCHANGED <<highest_txn_id_, txns_by_id_, participants, status_tablet_,
                   calls, begun, mvccVars, writeVars, crashed>>

\* v.Release(&highest_txn_id, &txns_by_id) and the installation under lock_.
LoadInstall ==
    /\ ~crashed
    /\ load_v.pc = "visited"
    /\ highest_txn_id_' = IF load_v.highest_txn_id_ > highest_txn_id_
                          THEN load_v.highest_txn_id_ ELSE highest_txn_id_
    /\ txns_by_id_' = load_v.txns_by_id_
    /\ participants' = load_v.participants
    /\ load_v' = NoLoad
    /\ txn_last' = [op |-> "LoadFromTablet", txn_id |-> 0, tablet |-> 1,
                    status |-> "OK", wrote |-> FALSE]
    /\ UNCHANGED <<status_tablet_, calls, begun, mvccVars, writeVars, crashed>>

\* ---- specifications ------------------------------------------------
\* Concurrent callers of every operation of a running manager.
NextTxn ==
    \E c \in Callers :
        \/ \E i \in TxnIds : BeginTransaction(c, i)
        \/ BeginPersist(c)
        \/ BeginEmplace(c)
        \/ \E i \in TxnIds : BeginCommitTransaction(c, i)
        \/ \E i \in TxnIds : FinalizeCommitTransaction(c, i)
        \/ \E i \in TxnIds : AbortTransaction(c, i)
        \/ \E i \in TxnIds : \E p \in Tablets : RegisterParticipant(c, i, p)
        \/ TxnLockAndCheck(c)
        \/ TxnPersist(c)
        \/ TxnCommit(c)
        \/ RegisterReadLock(c)
        \/ RegisterPrtLock(c)
        \/ RegisterPersist(c)
        \/ RegisterCommit(c)

SpecTxn == Init /\ [][NextTxn]_vars

\* The same callers on a manager that was loaded from a status tablet.
SpecTxnLoaded == InitLoaded /\ [][NextTxn]_vars

\* Concurrent BeginTransaction calls and a concurrent LoadFromTablet.
NextTxnLoad ==
    \/ \E c \in Callers :
        \/ \E i \in TxnIds : BeginTransaction(c, i)
        \/ BeginPersist(c)
        \/ BeginEmplace(c)
    \/ LoadFromTablet
    \/ LoadInstall

SpecTxnLoad == Init /\ [][NextTxnLoad]_vars

TxnTypeOK ==
    /\ highest_txn_id_ \in -1..MaxTxnId
    /\ txns_by_id_ \in [TxnIds -> {NoEntry, OPEN, COMMIT_IN_PROGRESS, COMMITTED, ABORTED}]
    /\ participants \in [TxnIds -> [Tablets -> {NoEntry, UNKNOWN} \cup LoadedStates]]
    /\ \A c \in Callers : calls[c].txn_id \in TxnIds /\ calls[c].tablet \in Tablets
    /\ \A i \in TxnIds : begun[i].ok \in 0..2

\* ===================================================================
\* Properties
\* ===================================================================

acb == cur_snap_.all_committed_before_
ncaoa == cur_snap_.none_committed_at_or_after_
committed == SeqRange(cur_snap_.committed_timestamps_)
lb == new_op_timestamp_exc_lower_bound_
InFlightNow == InFlight(timestamps_in_flight_)
Max2(a, b) == IF a >= b THEN a ELSE b
Min2(a, b) == IF a <= b THEN a ELSE b

\* C1: in every reachable state no timestamp of the in-flight table is
\* considered committed by the live snapshot: it is neither in
\* committed_timestamps nor strictly below all_committed_before.
C1_InFlightNotCommitted ==
    \A t \in InFlightNow : t \notin committed /\ ~(t < acb)

\* C1 witness: ops are in flight while another op is in the committed list
\* and clean time has been moved past its constructed value.
C1_Witness ==
    /\ InFlightNow # {}
    /\ committed # {}
    /\ acb > kInitialTimestamp
    /\ ~crashed

\* C2: once CommitOp(t) has returned, the live snapshot (hence every snapshot
\* copied from it afterwards) reports IsCommitted(t), after any further
\* operations.
C2_CommittedStaysVisible ==
    \A t \in commit_returned : IsCommitted(cur_snap_, t)

\* C2 witness: one committed op has been absorbed below the clean time and
\* another is still carried in the explicit list, with more ops in flight.
C2_Witness ==
    /\ \E t \in commit_returned : t < acb
    /\ \E u \in commit_returned : u \in committed
    /\ InFlightNow # {}
    /\ ~crashed

\* C3 (as claimed): all_committed_before never decreases from one state to
\* the next, for every sequence of operations including
\* AdjustNewOpLowerBound(t) with any t from kMin upward.
C3_CleanTimeMonotonic ==
    [][cur_snap_'.all_committed_before_ >= cur_snap_.all_committed_before_]_vars

\* C4 (as claimed): for every timestamp t, kMin and kInitialTimestamp
\* included, once the live snapshot reports IsCommitted(t) every later
\* snapshot reports it too.
C4_IsCommittedMonotonic ==
    [][\A t \in Ts : IsCommitted(cur_snap_, t) => IsCommitted(cur_snap_', t)]_vars

\* C5 (as claimed): in every reachable state
\* all_committed_before <= none_committed_at_or_after.
C5_WatermarksOrdered == acb <= ncaoa

\* C6 (as claimed): in every reachable state every v of committed_timestamps
\* satisfies all_committed_before <= v < none_committed_at_or_after.
C6_CommittedWithinWatermarks ==
    \A v \in committed : acb <= v /\ v < ncaoa

\* C7 (as claimed): after every operation, AbortOp after Close() included,
\* earliest_in_flight equals the minimum key of the in-flight table, or kMax
\* when the table is empty.
C7_EarliestInFlightExact ==
    earliest_in_flight_ = AdvanceEarliestInFlightTimestamp(timestamps_in_flight_)

\* C8 (as claimed): in every reachable state, the freshly constructed
\* coordinator included,
\* all_committed_before <= min(earliest_in_flight, new_op_exc_lb).
C8_CleanTimeBelowBoth ==
    acb <= Min2(earliest_in_flight_, lb)

\* C8 (amended): in every reachable state all_committed_before <=
\* earliest_in_flight, and all_committed_before <= new_op_exc_lb except while
\* the coordinator still has its constructed watermarks (all_committed_before
\* = kInitialTimestamp with new_op_exc_lb = kMin).
C8_CleanTimeBelowBothAmended ==
    /\ acb <= earliest_in_flight_
    /\ \/ acb <= lb
       \/ (acb = kInitialTimestamp /\ lb = kMin)

\* C8 witness: clean time was recomputed while an op below the lower bound
\* is in flight, so the clean time sits on earliest_in_flight.
C8_Witness ==
    /\ InFlightNow # {}
    /\ lb > kInitialTimestamp
    /\ earliest_in_flight_ < lb
    /\ acb = earliest_in_flight_
    /\ ~crashed

\* C9: AdjustNewOpLowerBound(t) never fails and leaves new_op_exc_lb =
\* max(old new_op_exc_lb, t); new_op_exc_lb never decreases and no other
\* operation changes it.
C9_LowerBoundMax ==
    [][/\ lastOp'.op = "AdjustNewOpLowerBound" =>
            /\ ~crashed'
            /\ new_op_timestamp_exc_lower_bound_' = Max2(lb, lastOp'.ts)
       /\ new_op_timestamp_exc_lower_bound_' >= lb
       /\ new_op_timestamp_exc_lower_bound_' # lb =>
            lastOp'.op = "AdjustNewOpLowerBound"]_vars

\* C9 witness: an adjustment advanced the bound while ops were in flight.
C9_Witness ==
    /\ lastOp.op = "AdjustNewOpLowerBound"
    /\ lastOp.ts > kInitialTimestamp
    /\ lb = lastOp.ts
    /\ InFlightNow # {}

\* C10 (as claimed): AdjustNewOpLowerBound(t) with t <= new_op_exc_lb is a
\* no-op: the lower bound, the live snapshot, the in-flight table and the
\* waiter list are unchanged.
C10_NonAdvancingAdjustIsNoOp ==
    [][(lastOp'.op = "AdjustNewOpLowerBound" /\ lastOp'.ts <= lb) =>
            UNCHANGED <<mgrVars, waiters_, threads>>]_vars

\* C10 (amended): AdjustNewOpLowerBound(t) with t < new_op_exc_lb is a no-op
\* (lower bound, live snapshot, in-flight table, earliest_in_flight and
\* waiter list unchanged); with t >= new_op_exc_lb, t = new_op_exc_lb
\* included, clean time is recomputed.
C10_BackwardAdjustIsNoOp ==
    [][/\ (lastOp'.op = "AdjustNewOpLowerBound" /\ lastOp'.ts < lb) =>
            UNCHANGED <<mgrVars, waiters_, threads>>
       /\ (lastOp'.op = "AdjustNewOpLowerBound" /\ lastOp'.ts >= lb) =>
            cur_snap_'.all_committed_before_ =
                Min2(earliest_in_flight_, lastOp'.ts)]_vars

\* C10 witness: a backward adjustment was made while a waiter was parked,
\* ops were in flight and the clean time was stale (a recomputation would
\* have moved it).
C10_Witness ==
    /\ lastOp.op = "AdjustNewOpLowerBound"
    /\ lastOp.ts < lb
    /\ waiters_ # <<>>
    /\ acb # Min2(earliest_in_flight_, lb)

\* C11: a snapshot taken from the coordinator is an independent copy.
\* TakeSnapshot hands out the value of the live snapshot and changes nothing
\* of the coordinator; every later StartOp, StartApplyingOp, CommitOp, AbortOp,
\* AdjustNewOpLowerBound or Close step, fatal ones included, leaves its
\* all_committed_before, committed_timestamps and none_committed_at_or_after,
\* hence every IsCommitted answer, unchanged.
C11_SnapshotIsIndependentCopy ==
    [][/\ lastOp'.op = "TakeSnapshot" =>
            /\ taken_snap' = cur_snap_
            /\ UNCHANGED <<mgrVars, open_, waiters_>>
       /\ lastOp'.op # "TakeSnapshot" =>
            /\ taken_snap' = taken_snap
            /\ \A t \in Ts : IsCommitted(taken_snap', t) = IsCommitted(taken_snap, t)]_vars

\* C11 witness: a snapshot was taken with an op in its committed list, and
\* the coordinator has since moved its clean time past that op, dropped it
\* from the live list and been closed, while the copy still carries it.
C11_Witness ==
    /\ taken_snap.committed_timestamps_ # <<>>
    /\ cur_snap_.committed_timestamps_ = <<>>
    /\ acb > taken_snap.all_committed_before_
    /\ lastOp.op = "CloseDrain"
    /\ ~crashed

\* C12: StartOp(t) is fatal exactly when t is considered committed by the
\* live snapshot, or t <= new_op_exc_lb, or t is already in the in-flight
\* table; in every other case, on an open or a closed coordinator alike, it
\* succeeds and adds t to the in-flight table as RESERVED, leaving the live
\* snapshot and new_op_exc_lb unchanged.
C12_StartOpFatalExactly ==
    [][\A t \in Ts : StartOp(t) =>
          IF IsCommitted(cur_snap_, t) \/ t <= lb \/ t \in InFlightNow
          THEN crashed' /\ UNCHANGED mgrVars
          ELSE /\ ~crashed'
               /\ timestamps_in_flight_' =
                      [timestamps_in_flight_ EXCEPT ![t] = RESERVED]
               /\ cur_snap_' = cur_snap_
               /\ new_op_timestamp_exc_lower_bound_' = lb]_vars

\* C12 witness: StartOp succeeded on a closed coordinator, above a raised
\* lower bound, while another op was in flight and one was committed.
C12_Witness ==
    /\ lastOp.op = "StartOp"
    /\ timestamps_in_flight_[lastOp.ts] = RESERVED
    /\ ~open_
    /\ close_pc = "idle"
    /\ lb >= kInitialTimestamp
    /\ InFlightNow # {lastOp.ts}
    /\ commit_returned # {}
    /\ ~crashed

\* the per-timestamp transition graph of spec 3.7 with the operation of each edge
LegalTransition(from, to, name) ==
    \/ from = NONE     /\ to = RESERVED /\ name = "StartOp"
    \/ from = RESERVED /\ to = APPLYING /\ name = "StartApplyingOp"
    \/ from = APPLYING /\ to = NONE     /\ name = "CommitOp"
    \/ from = RESERVED /\ to = NONE     /\ name = "AbortOp"

\* C13: on an open coordinator the only per-timestamp transitions that
\* succeed are absent->RESERVED (StartOp), RESERVED->APPLYING
\* (StartApplyingOp), APPLYING->absent (CommitOp) and RESERVED->absent
\* (AbortOp), each changing only the timestamp it is called with;
\* StartApplyingOp on an absent or APPLYING timestamp, CommitOp on an absent
\* or RESERVED timestamp and AbortOp on an absent or APPLYING timestamp end
\* in the fatal state.
C13_OnlyLegalTransitions ==
    [][open_ =>
         /\ \A t \in Ts :
               timestamps_in_flight_'[t] # timestamps_in_flight_[t] =>
                   /\ ~crashed'
                   /\ lastOp'.ts = t
                   /\ LegalTransition(timestamps_in_flight_[t],
                                      timestamps_in_flight_'[t], lastOp'.op)
         /\ \A t \in Ts :
               /\ (StartApplyingOp(t) /\ timestamps_in_flight_[t] \in {NONE, APPLYING})
                      => crashed'
               /\ (CommitOp(t) /\ timestamps_in_flight_[t] \in {NONE, RESERVED})
                      => crashed'
               /\ (AbortOp(t) /\ timestamps_in_flight_[t] \in {NONE, APPLYING})
                      => crashed']_vars

\* C13 witness: an operation ended in the fatal state on an open coordinator
\* that has ops in flight in both states and has committed and adjusted
\* before.
C13_Witness ==
    /\ crashed
    /\ open_
    /\ \E t \in Ts : timestamps_in_flight_[t] = RESERVED
    /\ \E t \in Ts : timestamps_in_flight_[t] = APPLYING
    /\ commit_returned # {}

\* C14: after Close(), AbortOp(t) on a timestamp that is in flight in either
\* state, RESERVED or APPLYING, succeeds without a fatal error and removes t
\* from the in-flight table (so dropping an APPLYING scoped handle after
\* Close() does not crash); the live snapshot is left as it was.
C14_AbortAfterCloseSucceeds ==
    [][\A t \in Ts :
          (AbortOp(t) /\ ~open_ /\ timestamps_in_flight_[t] \in {RESERVED, APPLYING}) =>
              /\ ~crashed'
              /\ timestamps_in_flight_' = [timestamps_in_flight_ EXCEPT ![t] = NONE]
              /\ cur_snap_' = cur_snap_]_vars

\* C14 witness: after Close() returned, an op was aborted on the closed
\* path (its timestamp is still the cached earliest_in_flight) while another
\* op stays in flight in APPLYING state.
C14_Witness ==
    /\ lastOp.op = "AbortOp"
    /\ ~open_
    /\ close_pc = "idle"
    /\ timestamps_in_flight_[lastOp.ts] = NONE
    /\ earliest_in_flight_ = lastOp.ts
    /\ lastOp.ts < kMax
    /\ \E u \in Ts : timestamps_in_flight_[u] = APPLYING
    /\ ~crashed

\* Close() has returned and no further Close() call is in progress.
CloseReturned == close_returned /\ close_pc = "idle"

\* a wait call that sits on its latch, not yet counted down
Parked(w) == threads[w].pc \in {"blocked", "timed_out"} /\ threads[w].latch = 1

\* C15 (as claimed): for every interleaving of Close() with concurrent wait
\* calls, once Close() has returned no wait call is left parked and the
\* waiter list is empty and stays empty (what the destructor asserts).
C15_NoWaiterAfterClose ==
    CloseReturned => /\ waiters_ = <<>>
                     /\ \A w \in Threads : ~Parked(w)

\* C16 (as claimed): a wait call that starts after Close() has returned
\* returns Aborted without enqueuing a waiter, whatever the in-flight table
\* contains; open_ never becomes true again; and a second Close() changes
\* nothing (coordinator state, waiter list and waiting threads).
C16_ClosedStaysClosed ==
    [][/\ open_' => open_
       /\ \A w \in Threads :
            /\ \A t \in Ts :
                  (close_returned /\ WaitForSnapshotWithAllCommitted(w, t)) =>
                      /\ threads'[w].pc = "idle"
                      /\ threads'[w].status = "Aborted"
                      /\ waiters_' = waiters_
            /\ (close_returned /\ WaitForApplyingOpsToCommit(w)) =>
                      /\ threads'[w].pc = "idle"
                      /\ threads'[w].status = "Aborted"
                      /\ waiters_' = waiters_
       /\ (close_returned /\ (CloseStore \/ CloseDrain)) =>
              UNCHANGED <<mgrVars, open_, waiters_, threads>>]_vars

\* C17 (as claimed): on a coordinator that was never closed, a caller parked
\* in WaitForSnapshotWithAllCommitted(T) whose deadline has not expired is
\* woken (its latch counted down, so that it returns OK) by the operation
\* that leaves no in-flight op with timestamp <= T; no state is left in
\* which it waits for a further coordinator operation.  (Stated for T < kMax:
\* T = kMax is never below earliest_in_flight, whose empty value is kMax.)
C17_AllCommittedWaiterWoken ==
    \A w \in Threads :
        (/\ open_
         /\ threads[w].pc = "blocked"
         /\ threads[w].wait_for = ALL_COMMITTED
         /\ threads[w].timestamp < kMax
         /\ \A u \in InFlightNow : u > threads[w].timestamp)
        => threads[w].latch = 0

\* C18 (as claimed): when CommitOp(t) on an open coordinator removes the
\* last in-flight op with timestamp <= T, every waiter parked on
\* NONE_APPLYING(T) is removed from the waiter list and its latch counted
\* down before CommitOp returns (so that the wait call returns OK), for every
\* value of new_op_exc_lb and whether or not ops are in flight above T.
C18_CommitWakesApplyingWaiters ==
    [][\A t \in Ts :
          (open_ /\ CommitOp(t) /\ ~crashed') =>
              \A w \in SeqRange(waiters_) :
                  (/\ threads[w].wait_for = NONE_APPLYING
                   /\ t <= threads[w].timestamp
                   /\ \A u \in InFlight(timestamps_in_flight_') :
                          u > threads[w].timestamp)
                  => /\ w \notin SeqRange(waiters_')
                     /\ threads'[w].latch = 0]_vars

ApplyingNow == {t \in Ts : timestamps_in_flight_[t] = APPLYING}

\* C19: WaitForApplyingOpsToCommit() on an open coordinator returns OK at
\* once, without enqueuing a waiter, whenever no in-flight op is APPLYING when
\* it scans the in-flight table, RESERVED ops notwithstanding; otherwise it
\* goes on to wait on NONE_APPLYING(T), T the highest timestamp APPLYING at
\* the scan, and T stays the call's timestamp until the call returns.
C19_WaitForApplyingScansApplyingOnly ==
    [][\A w \in Threads :
          /\ WaitForApplyingScan(w) =>
                /\ waiters_' = waiters_
                /\ IF ApplyingNow = {}
                   THEN /\ threads'[w].pc = "idle"
                        /\ threads'[w].status = "OK"
                   ELSE /\ threads'[w].pc = "wu_open"
                        /\ threads'[w].wait_for = NONE_APPLYING
                        /\ threads'[w].timestamp \in ApplyingNow
                        /\ \A u \in ApplyingNow : u <= threads'[w].timestamp
          /\ (/\ threads[w].pc \in {"wu_open", "wu_lock", "blocked"}
              /\ threads'[w].pc # "idle") =>
                /\ threads'[w].wait_for = threads[w].wait_for
                /\ threads'[w].timestamp = threads[w].timestamp]_vars

\* C19 witness: the call returned OK straight from the scan on an open
\* coordinator while RESERVED ops were in flight and none was APPLYING.
C19_Witness ==
    /\ lastOp.op = "WaitForApplyingScan"
    /\ \E w \in Threads : threads[w].pc = "idle" /\ threads[w].status = "OK"
    /\ waiters_ = <<>>
    /\ open_
    /\ ApplyingNow = {}
    /\ \E t \in Ts : timestamps_in_flight_[t] = RESERVED
    /\ ~crashed

\* C20: a wait call whose deadline expired returns TimedOut only if its
\* latch has not been counted down when it has the lock again, and then it
\* has removed its own record (and no other) from the waiter list; if a wake
\* raced with the expiry (latch already zero) it returns OK on an open and
\* Aborted on a closed coordinator, leaving the list alone.  A parked
\* ALL_COMMITTED(T) call is only counted down by Close() or when no in-flight
\* op <= T is left, so with an op at T in flight and never resolved the call
\* with a deadline ends in TimedOut.
C20_TimedOutOnlyIfNotWoken ==
    [][\A w \in Threads :
          /\ WaitUntilCleanup(w) =>
                /\ threads'[w].pc = "idle"
                /\ IF threads[w].latch = 0
                   THEN /\ threads'[w].status = (IF open_ THEN "OK" ELSE "Aborted")
                        /\ waiters_' = waiters_
                   ELSE /\ threads'[w].status = "TimedOut"
                        /\ waiters_' = SelectSeq(waiters_, LAMBDA x : x # w)
                        /\ w \notin SeqRange(waiters_')
          /\ (threads'[w].status = "TimedOut" /\ threads[w].status # "TimedOut") =>
                /\ threads[w].pc = "timed_out"
                /\ threads[w].latch = 1
          /\ (/\ threads[w].pc \in {"blocked", "timed_out"}
              /\ threads[w].wait_for = ALL_COMMITTED
              /\ threads[w].latch = 1
              /\ threads'[w].latch = 0) =>
                \/ lastOp'.op = "CloseDrain"
                \/ \A u \in InFlight(timestamps_in_flight_') : u > threads[w].timestamp]_vars

\* C20 witness: a wait call has just returned TimedOut from its cleanup on
\* an open coordinator with an op still in flight, and its record is gone
\* from the waiter list.
C20_Witness ==
    /\ lastOp.op = "WaitUntilCleanup"
    /\ \E w \in Threads : /\ threads[w].pc = "idle"
                           /\ threads[w].status = "TimedOut"
                           /\ w \notin SeqRange(waiters_)
    /\ open_
    /\ InFlightNow # {}
    /\ ~crashed

\* C21: after StartOp(t); StartApplyingOp(t); CommitOp(t), and after any
\* further operations, t is not in the in-flight table and t is in exactly
\* one of: committed_timestamps of the live snapshot, or the range strictly
\* below all_committed_before (never both, never neither).
C21_CommittedInExactlyOnePlace ==
    \A t \in commit_returned :
        /\ timestamps_in_flight_[t] = NONE
        /\ (t \in committed) # (t < acb)

\* C21 witness: further operations followed two commits; one committed
\* timestamp has moved below all_committed_before and left the list, the
\* other is still in the list at or above it.
C21_Witness ==
    /\ \E t \in commit_returned : t < acb /\ t \notin committed
    /\ \E u \in commit_returned : u >= acb /\ u \in committed
    /\ lastOp.op \in {"StartOp", "AbortOp", "AdjustNewOpLowerBound"}
    /\ ~crashed

\* C22: a scoped op handle resolves its op exactly once.  Constructing it
\* performs StartOp(t); destroying it without Commit() or Abort() performs
\* AbortOp(t), after whose return t is not in the in-flight table and the
\* live snapshot (what a snapshot taken at once copies) does not report t
\* committed; destroying it after Commit() or Abort() performs no
\* coordinator call; and t is in flight exactly while its handle is live.
C22_ScopedOpResolvesOnce ==
    [][\A t \in Ts :
          /\ (ScopedOp(t) /\ ~crashed') =>
                /\ timestamps_in_flight_[t] = NONE
                /\ timestamps_in_flight_'[t] = RESERVED
                /\ scoped'[t] = "live"
          /\ (ScopedOpDestroy(t) /\ scoped[t] = "live") =>
                /\ timestamps_in_flight_[t] # NONE
                /\ ~crashed' =>
                      /\ timestamps_in_flight_'[t] = NONE
                      /\ ~IsCommitted(cur_snap_', t)
                      /\ scoped'[t] = "none"
          /\ (ScopedOpDestroy(t) /\ scoped[t] = "done") =>
                /\ UNCHANGED <<mgrVars, open_, waiters_, threads, crashed>>
                /\ timestamps_in_flight_[t] = NONE
          /\ ~crashed' =>
                (scoped'[t] = "live") = (timestamps_in_flight_'[t] # NONE)]_vars

\* C22 witness: a handle was destroyed without Commit() or Abort() (its op
\* was aborted and the handle is gone) while another handle that committed
\* is done and not yet destroyed.
C22_Witness ==
    /\ lastOp.op = "AbortOp"
    /\ scoped[lastOp.ts] = "none"
    /\ timestamps_in_flight_[lastOp.ts] = NONE
    /\ ~IsCommitted(cur_snap_, lastOp.ts)
    /\ \E u \in commit_returned : scoped[u] = "done"
    /\ ~crashed

\* C23 (as claimed): in every reachable state the live snapshot (what
\* TakeSnapshot copies) reports no timestamp at or above
\* none_committed_at_or_after as committed: for every t with
\* MayHaveCommittedOpsAtOrAfter(t) false and every u >= t, IsCommitted(u) is
\* false.
C23_NoneCommittedAtOrAfter ==
    \A t \in Ts :
        ~MayHaveCommittedOpsAtOrAfter(cur_snap_, t) =>
            \A u \in Ts : u >= t => ~IsCommitted(cur_snap_, u)

\* -------------------------------------------------------------------
\* TxnStatusManager properties
\* -------------------------------------------------------------------

\* Caller c's BeginTransaction call returns OK in this step.
BeginSucceeds(c) ==
    /\ calls[c].pc = "begin_emplace"
    /\ calls'[c].pc = "idle"

\* C24: under any interleaving of concurrent BeginTransaction calls and
\* LoadFromTablet, at most one BeginTransaction call succeeds for a given
\* txn_id, a call succeeds only if its txn_id is strictly greater than the
\* highest id seen at the time of its check, and highest_txn_id_ never
\* decreases.
C24_AtMostOneBeginPerId ==
    [][ /\ \A i \in TxnIds : begun'[i].ok <= 1
        /\ \A c \in Callers :
              BeginSucceeds(c) => calls[c].txn_id > calls[c].seen
        /\ highest_txn_id_' >= highest_txn_id_ ]_vars

\* A second BeginTransaction of an id that was begun successfully has been
\* refused while a LoadFromTablet is between its visit and its installation.
C24_Witness ==
    /\ txn_last.op = "BeginTransaction"
    /\ txn_last.status = "InvalidArgument"
    /\ begun[txn_last.txn_id].ok = 1
    /\ load_v.pc = "visited"

\* Caller c's BeginTransaction call returns the error of AddNewTransaction in
\* this step.
BeginFailsToPersist(c) ==
    /\ calls[c].pc = "begin_persist"
    /\ calls'[c].pc = "idle"

\* C25 (as claimed): BeginTransaction is all-or-nothing: when persisting the
\* OPEN entry fails, highest_txn_id_ and the transaction map are as they were
\* before the call, so that a retry with the same txn_id is accepted.  Stated
\* for a call whose id is still the highest, i.e. no later call advanced it.
C25_BeginAllOrNothing ==
    [][ \A c \in Callers :
          (BeginFailsToPersist(c) /\ highest_txn_id_ = calls[c].txn_id)
          => /\ highest_txn_id_' = calls[c].seen
             /\ txns_by_id_' = txns_by_id_ ]_vars

\* C25 (amended): when persisting the OPEN entry fails, the transaction map
\* and the status tablet are unchanged and hold no entry for txn_id, but
\* highest_txn_id_ keeps the advance made by the call; every later
\* BeginTransaction with that txn_id is refused with InvalidArgument.
C25_BeginFailureKeepsHighest ==
    [][ \A c \in Callers :
          /\ BeginFailsToPersist(c)
             => /\ highest_txn_id_' = highest_txn_id_
                /\ highest_txn_id_ >= calls[c].txn_id
                /\ txns_by_id_' = txns_by_id_
                /\ txns_by_id_[calls[c].txn_id] = NoEntry
                /\ status_tablet_' = status_tablet_
                /\ txn_last'.status = "PersistError"
          /\ \A i \in TxnIds :
                (begun[i].failed /\ BeginTransaction(c, i))
                => /\ txn_last'.op = "BeginTransaction"
                   /\ txn_last'.txn_id = i
                   /\ txn_last'.status = "InvalidArgument"
                   /\ calls'[c].pc = "idle" ]_vars

\* A BeginTransaction whose persist failed was retried with the same id and
\* refused, while no other call had advanced highest_txn_id_ past it.
C25_Witness ==
    /\ txn_last.op = "BeginTransaction"
    /\ txn_last.status = "InvalidArgument"
    /\ begun[txn_last.txn_id].failed
    /\ begun[txn_last.txn_id].ok = 0
    /\ highest_txn_id_ = txn_last.txn_id
    /\ \A c \in Callers : calls[c].pc = "idle"

\* The edges of the transaction state machine, and the creation of an entry.
TxnEdges ==
    {<<NoEntry, OPEN>>,
     <<OPEN, COMMIT_IN_PROGRESS>>, <<COMMIT_IN_PROGRESS, COMMITTED>>,
     <<OPEN, ABORTED>>, <<COMMIT_IN_PROGRESS, ABORTED>>}

\* C26: over any sequence and interleaving of BeginCommitTransaction,
\* FinalizeCommitTransaction and AbortTransaction calls, the in-memory state
\* of every transaction changes only along OPEN -> COMMIT_IN_PROGRESS,
\* COMMIT_IN_PROGRESS -> COMMITTED, OPEN -> ABORTED and COMMIT_IN_PROGRESS ->
\* ABORTED; COMMITTED and ABORTED never change again, and COMMITTED is only
\* entered from COMMIT_IN_PROGRESS.
C26_OnlyStateMachineEdges ==
    [][ \A i \in TxnIds :
          /\ txns_by_id_'[i] # txns_by_id_[i]
             => <<txns_by_id_[i], txns_by_id_'[i]>> \in TxnEdges
          /\ txns_by_id_[i] \in {COMMITTED, ABORTED}
             => txns_by_id_'[i] = txns_by_id_[i]
          /\ (txns_by_id_'[i] = COMMITTED /\ txns_by_id_[i] # COMMITTED)
             => txns_by_id_[i] = COMMIT_IN_PROGRESS ]_vars

\* One transaction is COMMITTED, another ABORTED, and a call on one of them
\* has just been refused.
C26_Witness ==
    /\ \E i \in TxnIds : txns_by_id_[i] = COMMITTED
    /\ \E i \in TxnIds : txns_by_id_[i] = ABORTED
    /\ txn_last.status = "IllegalState"
    /\ txn_last.op \in {"BeginCommitTransaction", "FinalizeCommitTransaction",
                        "AbortTransaction"}
    /\ txns_by_id_[txn_last.txn_id] \in {COMMITTED, ABORTED}

\* What a call may change: the manager's memory and the status tablet.
txnState == <<highest_txn_id_, txns_by_id_, participants, status_tablet_>>

\* Caller c returns in this step with status st.
Returns(c, st) ==
    /\ calls[c].pc # "idle"
    /\ calls'[c].pc = "idle"
    /\ txn_last'.status = st

\* Caller c is at the state check of a BeginCommitTransaction on a
\* COMMIT_IN_PROGRESS, a FinalizeCommitTransaction on a COMMITTED or an
\* AbortTransaction on an ABORTED transaction, and takes its step.
SameStateCheck(c) ==
    /\ calls[c].pc = "txn_lock"
    /\ txns_by_id_[calls[c].txn_id] = TxnTarget(calls[c].op)
    /\ calls'[c] # calls[c]

\* Caller c is in a RegisterParticipant for a participant that is OPEN
\* already, and takes a step.
SameStateRegister(c) ==
    /\ calls[c].op = "RegisterParticipant"
    /\ calls[c].pc \in {"txn_rlock", "prt_lock"}
    /\ participants[calls[c].txn_id][calls[c].tablet] = OPEN
    /\ calls'[c] # calls[c]

\* C27 (as claimed): BeginCommitTransaction on COMMIT_IN_PROGRESS,
\* FinalizeCommitTransaction on COMMITTED, AbortTransaction on ABORTED and
\* RegisterParticipant on a participant that is OPEN already each return OK,
\* leave the in-memory state unchanged and write nothing to the registry.
C27_SameStateCallsAreNoOps ==
    [][ \A c \in Callers :
          /\ SameStateCheck(c) => (Returns(c, "OK") /\ UNCHANGED txnState)
          /\ SameStateRegister(c)
             => /\ UNCHANGED txnState
                /\ calls'[c].pc = "idle" => Returns(c, "OK") ]_vars

\* C27 (amended): the three transaction calls are as claimed; a
\* RegisterParticipant on a participant that is OPEN already changes nothing
\* and writes nothing, and returns OK if the transaction is still OPEN, but
\* IllegalState if the transaction has left OPEN.
C27_SameStateCallsAreNoOpsWhileOpen ==
    [][ \A c \in Callers :
          /\ SameStateCheck(c) => (Returns(c, "OK") /\ UNCHANGED txnState)
          /\ SameStateRegister(c)
             => /\ UNCHANGED txnState
                /\ calls[c].pc = "txn_rlock"
                   => IF txns_by_id_[calls[c].txn_id] = OPEN
                      THEN calls'[c].pc = "prt_lock"
                      ELSE Returns(c, "IllegalState")
                /\ calls[c].pc = "prt_lock" => Returns(c, "OK") ]_vars

\* A RegisterParticipant has returned OK without writing to the status
\* tablet, its participant being OPEN already, after each of the three
\* transaction calls had been seen to do the same.
C27_Witness ==
    /\ txn_last.op = "RegisterParticipant"
    /\ txn_last.status = "OK"
    /\ ~txn_last.wrote
    /\ participants[txn_last.txn_id][txn_last.tablet] = OPEN
    /\ status_tablet_.prts[txn_last.txn_id][txn_last.tablet] = OPEN

\* Caller c starts one of the four calls on transaction i in this step.
CallOn(c, i) ==
    \/ BeginCommitTransaction(c, i)
    \/ FinalizeCommitTransaction(c, i)
    \/ AbortTransaction(c, i)
    \/ \E p \in Tablets : RegisterParticipant(c, i, p)

\* Caller c's call is refused with status st in this step, and nothing in
\* memory or in the status tablet changes.
Refused(c, st) ==
    /\ calls'[c].pc = "idle"
    /\ txn_last'.status = st
    /\ ~txn_last'.wrote
    /\ UNCHANGED txnState

\* C28: a call outside its source set (BeginCommitTransaction on COMMITTED or
\* ABORTED, FinalizeCommitTransaction on OPEN or ABORTED, AbortTransaction on
\* COMMITTED, RegisterParticipant on a transaction that is not OPEN or on a
\* participant that is neither UNKNOWN nor OPEN) returns IllegalState, a call
\* on an unknown txn_id returns NotFound, and in both cases the in-memory
\* state and the registry are unchanged.
C28_RefusedCallsChangeNothing ==
    [][ \A c \in Callers :
          /\ \A i \in TxnIds :
                (CallOn(c, i) /\ txns_by_id_[i] = NoEntry)
                => (Refused(c, "NotFound") /\ txn_last'.txn_id = i)
          /\ ( /\ calls[c].pc = "txn_lock"
               /\ calls'[c] # calls[c]
               /\ txns_by_id_[calls[c].txn_id]
                    \notin TxnSources(calls[c].op) \cup {TxnTarget(calls[c].op)} )
             => Refused(c, "IllegalState")
          /\ ( /\ calls[c].pc = "txn_rlock"
               /\ calls'[c] # calls[c]
               /\ txns_by_id_[calls[c].txn_id] # OPEN )
             => Refused(c, "IllegalState")
          /\ ( /\ calls[c].pc \in {"txn_rlock", "prt_lock"}
               /\ calls'[c] # calls[c]
               /\ participants[calls[c].txn_id][calls[c].tablet]
                    \notin {NoEntry, UNKNOWN, OPEN} )
             => /\ UNCHANGED txnState
                /\ calls[c].pc = "prt_lock" => Refused(c, "IllegalState") ]_vars

\* A RegisterParticipant on an OPEN transaction has been refused because the
\* participant was neither UNKNOWN nor OPEN, after a call on an unknown
\* txn_id had been possible.
C28_Witness ==
    /\ txn_last.op = "RegisterParticipant"
    /\ txn_last.status = "IllegalState"
    /\ txns_by_id_[txn_last.txn_id] = OPEN
    /\ participants[txn_last.txn_id][txn_last.tablet] \notin {NoEntry, UNKNOWN, OPEN}
    /\ \E i \in TxnIds : txns_by_id_[i] = NoEntry

\* The state of participant (i, p) as a reader sees it: a participant that
\* was never registered is UNKNOWN, as is an entry created by
\* GetOrCreateParticipant and not yet committed.
VisiblePrt(i, p) ==
    IF participants[i][p] = NoEntry THEN UNKNOWN ELSE participants[i][p]

VisiblePrts == [i \in TxnIds |-> [p \in Tablets |-> VisiblePrt(i, p)]]

\* The state of every transaction in memory is the state in the status
\* tablet, or the tablet is one edge ahead of it and the writer is about to
\* commit its lock; every OPEN participant is OPEN in the status tablet.
MemoryNotAhead ==
    /\ \A i \in TxnIds :
          txns_by_id_[i] # NoEntry
          => \/ status_tablet_.txns[i] = txns_by_id_[i]
             \/ \E c \in Callers :
                   /\ calls[c].pc = "txn_commit"
                   /\ calls[c].txn_id = i
                   /\ status_tablet_.txns[i] = TxnTarget(calls[c].op)
                   /\ <<txns_by_id_[i], status_tablet_.txns[i]>> \in TxnEdges
    /\ \A i \in TxnIds : \A p \in Tablets :
          VisiblePrt(i, p) # UNKNOWN
          => status_tablet_.prts[i][p] = participants[i][p]

RegisteringOnOpen(c) ==
    calls[c].pc \in {"prt_lock", "prt_persist", "prt_commit"}

\* C30: under any interleaving of RegisterParticipant with
\* BeginCommitTransaction or AbortTransaction on the same transaction, a
\* participant's in-memory state becomes OPEN only while the transaction's
\* visible state is OPEN; the transaction is not seen as COMMIT_IN_PROGRESS,
\* COMMITTED or ABORTED before a RegisterParticipant that saw it OPEN has
\* returned.
C30_ParticipantOpensOnlyInOpenTxn ==
    /\ \A c \in Callers :
          RegisteringOnOpen(c) => txns_by_id_[calls[c].txn_id] = OPEN
    /\ [][ /\ \A i \in TxnIds : \A p \in Tablets :
                 (participants'[i][p] = OPEN /\ participants[i][p] # OPEN)
                 => (txns_by_id_[i] = OPEN /\ txns_by_id_'[i] = OPEN)
           /\ \A c \in Callers :
                 RegisteringOnOpen(c)' => txns_by_id_'[calls'[c].txn_id] = OPEN
         ]_vars

\* A RegisterParticipant that saw the transaction OPEN is about to commit
\* its participant while a BeginCommitTransaction or AbortTransaction on the
\* same transaction has written the status tablet and waits to commit.
C30_Witness ==
    \E c, d \in Callers :
        /\ calls[c].pc = "prt_commit"
        /\ calls[d].pc = "txn_commit"
        /\ calls[d].txn_id = calls[c].txn_id
        /\ status_tablet_.txns[calls[c].txn_id] \in {COMMIT_IN_PROGRESS, ABORTED}
        /\ txns_by_id_[calls[c].txn_id] = OPEN

\* -------------------------------------------------------------------
\* Clean-time recomputation, waiters and snapshots
\* -------------------------------------------------------------------

\* The step is a CommitOp(t) that goes on to AdjustCleanTimeUnlocked.
CommitRecomputes(t) ==
    /\ CommitOp(t)
    /\ timestamps_in_flight_[t] = APPLYING
    /\ earliest_in_flight_ = t
    /\ new_op_timestamp_exc_lower_bound_ >= t

\* The step is an AdjustNewOpLowerBound(t) that goes on to
\* AdjustCleanTimeUnlocked.
AdjustRecomputes(t) ==
    /\ AdjustNewOpLowerBound(t)
    /\ new_op_timestamp_exc_lower_bound_ <= t

\* The state after AdjustCleanTimeUnlocked ran on the snapshot 'before'.
Recomputed(before) ==
    LET clean == Min2(earliest_in_flight_', new_op_timestamp_exc_lower_bound_')
        kept  == {x \in SeqRange(before.committed_timestamps_) : x >= clean}
    IN  /\ cur_snap_'.all_committed_before_ = clean
        /\ SeqRange(cur_snap_'.committed_timestamps_) = kept
        /\ Len(cur_snap_'.committed_timestamps_) = Cardinality(kept)
        /\ cur_snap_'.none_committed_at_or_after_ =
               IF kept = {} THEN clean ELSE before.none_committed_at_or_after_
        /\ \A i \in 1..Len(waiters_') :
              ~IsDoneWaitingUnlocked(threads'[waiters_'[i]].wait_for,
                                     threads'[waiters_'[i]].timestamp,
                                     cur_snap_', earliest_in_flight_',
                                     timestamps_in_flight_')

\* C31: immediately after every clean-time recomputation,
\* all_committed_before_ is the smaller of earliest_in_flight_ and the lower
\* bound, committed_timestamps_ holds exactly its previous values that are >=
\* the new all_committed_before_, none_committed_at_or_after_ is
\* all_committed_before_ if that list is empty and unchanged otherwise, and no
\* waiter whose condition is satisfied remains in waiters_.
C31_RecomputationEffects ==
    [][ \A t \in Ts :
          /\ AdjustRecomputes(t) => Recomputed(cur_snap_)
          /\ CommitRecomputes(t) => Recomputed(AddCommittedTimestamp(cur_snap_, t))
      ]_vars

\* An AdjustNewOpLowerBound has just recomputed clean time: a committed
\* timestamp at or above the new watermark was kept, and a parked waiter was
\* counted down and left the list.
C31_Witness ==
    /\ lastOp = Op("AdjustNewOpLowerBound", lb)
    /\ acb = lb
    /\ acb > kInitialTimestamp
    /\ committed # {}
    /\ waiters_ = <<>>
    /\ \E w \in Threads : threads[w].pc = "blocked" /\ threads[w].latch = 0

\* C32: CommitOp(t) recomputes clean time if and only if t was the earliest
\* in-flight timestamp and the lower bound is >= t; in every other case it
\* leaves all_committed_before_ (and the waiters) unchanged.  Committing the
\* only in-flight op at a timestamp above the lower bound does not move clean
\* time; a later AdjustNewOpLowerBound(t) moves it to t.
C32_CommitRecomputesIffEarliestAndBound ==
    [][ \A t \in Ts :
          /\ (CommitOp(t) /\ timestamps_in_flight_[t] = APPLYING)
             => IF t = MinOf(InFlightNow) /\ lb >= t
                THEN Recomputed(AddCommittedTimestamp(cur_snap_, t))
                ELSE /\ cur_snap_'.all_committed_before_ = acb
                     /\ waiters_' = waiters_
          /\ ( /\ AdjustRecomputes(t)
               /\ lastOp = Op("CommitOp", t)
               /\ InFlightNow = {}
               /\ acb < t )
             => cur_snap_'.all_committed_before_ = t
      ]_vars

\* C33: AbortOp(t) changes only the in-flight table and earliest_in_flight_:
\* the live snapshot, the lower bound, open_ and the waiter list are
\* unchanged, so aborting the earliest in-flight op neither moves clean time
\* nor makes t committed.
C33_AbortOpFrame ==
    [][ \A t \in Ts :
          (AbortOp(t) /\ timestamps_in_flight_[t] # NONE)
          => /\ cur_snap_' = cur_snap_
             /\ new_op_timestamp_exc_lower_bound_' = new_op_timestamp_exc_lower_bound_
             /\ open_' = open_
             /\ waiters_' = waiters_
             /\ threads' = threads
             /\ ~crashed' => /\ timestamps_in_flight_'[t] = NONE
                             /\ ~IsCommitted(cur_snap_', t)
      ]_vars

\* The earliest in-flight op has just been aborted on an open manager whose
\* lower bound is above it: another op is still in flight, the cached
\* earliest timestamp moved up to it and clean time stayed at the aborted
\* timestamp.
C33_Witness ==
    /\ lastOp.op = "AbortOp"
    /\ open_
    /\ timestamps_in_flight_[lastOp.ts] = NONE
    /\ ~IsCommitted(cur_snap_, lastOp.ts)
    /\ acb = lastOp.ts
    /\ lb > lastOp.ts
    /\ InFlightNow # {}
    /\ earliest_in_flight_ = MinOf(InFlightNow)
    /\ earliest_in_flight_ > lastOp.ts

\* Waiter w is in the waiter list.
Listed(w) == w \in SeqRange(waiters_)

\* The step is a CommitOp(t) that does not go on to AdjustCleanTimeUnlocked.
CommitWithoutRecompute(t) ==
    /\ CommitOp(t)
    /\ ~(earliest_in_flight_ = t /\ new_op_timestamp_exc_lower_bound_ >= t)

\* Waiter w's condition holds in the state the step leads to.
DoneAfter(w) ==
    IsDoneWaitingUnlocked(threads[w].wait_for, threads[w].timestamp,
                          cur_snap_', earliest_in_flight_', timestamps_in_flight_')

\* C34: a parked waiter leaves the waiter list and has its latch counted down
\* only by a clean-time recomputation that finds its condition satisfied or
\* by Close(), and otherwise leaves the list only by its own timeout.
\* StartOp, StartApplyingOp, AbortOp and every CommitOp that does not
\* recompute clean time leave the waiter list and the latches unchanged, so a
\* waiter on ALL_COMMITTED(T) stays parked after all ops <= T have committed,
\* until AdjustNewOpLowerBound recomputes.
C34_WaiterLeavesOnlyByRecomputeCloseTimeout ==
    [][ /\ \A w \in Threads :
              (Listed(w) /\ ~Listed(w)')
              => \/ /\ \E t \in Ts : AdjustRecomputes(t) \/ CommitRecomputes(t)
                    /\ DoneAfter(w)
                    /\ threads'[w].latch = 0
                 \/ CloseDrain /\ threads'[w].latch = 0
                 \/ WaitUntilCleanup(w) /\ threads[w].latch = 1
        /\ \A w \in Threads :
              (threads[w].pc # "idle" /\ threads[w].latch = 1
                 /\ threads'[w].pc # "idle" /\ threads'[w].latch = 0)
              => (Listed(w) /\ ~Listed(w)')
        /\ \A t \in Ts :
              (StartOp(t) \/ StartApplyingOp(t) \/ AbortOp(t)
                 \/ CommitWithoutRecompute(t))
              => (waiters_' = waiters_ /\ threads' = threads)
      ]_vars

\* A waiter on ALL_COMMITTED(T) is still parked and listed although the last
\* op at or below T has just committed: the commit was above the lower bound
\* and did not recompute clean time.
C34_Witness ==
    /\ lastOp.op = "CommitOp"
    /\ lb < lastOp.ts
    /\ \E w \in Threads :
          /\ Listed(w)
          /\ threads[w].pc = "blocked"
          /\ threads[w].latch = 1
          /\ threads[w].wait_for = ALL_COMMITTED
          /\ threads[w].timestamp >= lastOp.ts
          /\ threads[w].timestamp < kMax
          /\ \A t \in InFlightNow : t > threads[w].timestamp
          /\ threads[w].timestamp < earliest_in_flight_

\* The wait condition as the claim words it, in the current state:
\* ALL_COMMITTED(T) is T < all_committed_before or T < earliest_in_flight,
\* NONE_APPLYING(T) is no in-flight timestamp <= T.
WaitCondition(wait_for, T) ==
    IF wait_for = ALL_COMMITTED
    THEN T < acb \/ T < earliest_in_flight_
    ELSE \A t \in InFlightNow : t > T

\* Wait call w returns OK in this step.
ReturnsOK(w) ==
    /\ threads[w].pc # "idle"
    /\ threads'[w].pc = "idle"
    /\ threads'[w].status = "OK"

\* The latch of wait call w is counted down in this step.
LatchCountedDown(w) ==
    /\ threads[w].pc # "idle" /\ threads[w].latch = 1
    /\ threads'[w].pc # "idle" /\ threads'[w].latch = 0

\* C35: a wait call returns OK only if its condition was true in some state
\* between the call and the return and the manager was open when the call
\* re-checked open_.  A call returns OK either under the lock with its
\* condition true at that moment, or after its latch was counted down and
\* with open_ true at the re-check; a latch is counted down either by a step
\* after which the waiter's condition is true or by Close(), and a closed
\* manager never opens again, so a waiter woken by Close() never returns OK.
C35_WaitReturnsOKOnlyIfSatisfiedAndOpen ==
    /\ [][ \A w \in Threads :
              ReturnsOK(w)
              => \/ /\ WaitForApplyingScan(w) \/ WaitUntilEnqueue(w)
                    /\ WaitCondition(threads[w].wait_for, threads[w].timestamp)
                 \/ /\ WaitUntilWoken(w) \/ WaitUntilCleanup(w)
                    /\ threads[w].latch = 0
                    /\ open_ ]_vars
    /\ [][ \A w \in Threads :
              LatchCountedDown(w)
              => IF CloseDrain
                 THEN ~open_'
                 ELSE /\ WaitCondition(threads[w].wait_for, threads[w].timestamp)'
                      /\ open_' = open_ ]_vars
    /\ [][ ~open_ => ~open_' ]_vars
    /\ [][ \A w \in Threads :
              (threads[w].pc \in {"blocked", "timed_out"} /\ threads[w].latch = 0
                 /\ ~open_)
              => ~ReturnsOK(w) ]_vars

\* A wait call has just returned OK after having been parked and woken, its
\* condition still true and the manager open.
C35_Witness ==
    /\ lastOp.op = "WaitUntilWoken"
    /\ open_
    /\ \E w \in Threads :
          /\ threads[w].pc = "idle"
          /\ threads[w].status = "OK"
    /\ acb > kInitialTimestamp

\* C36: every record in the waiter list belongs to a wait call that has not
\* returned (it is parked or handling its timeout) and whose latch has not
\* been counted down, and appears in the list once; a latch that has been
\* counted down is not counted down again (it stays 0 until the call
\* returns, and only a listed record is counted down); and a wait call
\* never returns while its record is still in the list.
C36_WaiterListMatchesParkedCalls ==
    /\ [] /\ \A i \in 1..Len(waiters_) :
                /\ threads[waiters_[i]].pc \in {"blocked", "timed_out"}
                /\ threads[waiters_[i]].latch = 1
          /\ Len(waiters_) = Cardinality(SeqRange(waiters_))
    /\ [][ \A w \in Threads :
              /\ (threads[w].pc # "idle" /\ threads[w].latch = 0 /\ threads'[w].pc # "idle")
                 => (threads'[w].latch = 0 /\ ~Listed(w) /\ ~Listed(w)')
              /\ LatchCountedDown(w) => (Listed(w) /\ ~Listed(w)')
              /\ (threads[w].pc # "idle" /\ threads'[w].pc = "idle") => ~Listed(w)' ]_vars

\* A waiter whose deadline has passed is still in the list, latch not counted
\* down, while Close() has stored open_ = false and not yet drained the list.
C36_Witness ==
    /\ ~open_
    /\ close_pc = "stored"
    /\ \E w \in Threads :
          /\ Listed(w)
          /\ threads[w].pc = "timed_out"
          /\ threads[w].latch = 1

\* C37: when WaitForSnapshotWithAllCommitted(T) returns OK, the snapshot at T
\* it hands back is final: no op with timestamp <= T is in flight, and
\* StartOp at a timestamp below T is no longer possible (the timestamp is
\* already committed or InitOpUnlocked refuses it), so that no op below T
\* commits after the return.
C37_SnapshotAtTStaysAccurate ==
    [][ \A w \in Threads :
           (ReturnsOK(w) /\ threads[w].wait_for = ALL_COMMITTED)
           => /\ \A t \in InFlightNow' : t > threads[w].timestamp
              /\ \A t \in Ts : t < threads[w].timestamp
                    => (IsCommitted(cur_snap_, t) \/ ~InitOpOk(t))' ]_vars

\* C38: on an open manager, whenever an op with timestamp <= t is in flight,
\* MayHaveUncommittedOpsAtOrBefore(t) is true on the manager's current
\* snapshot and on the copy TakeSnapshot has just made of it, for every t,
\* t = all_committed_before_ included.
C38_SnapshotNeverHidesInFlightOp ==
    open_ =>
      \A t \in Ts :
         (\E u \in InFlightNow : u <= t)
         => /\ MayHaveUncommittedOpsAtOrBefore(cur_snap_, t)
            /\ lastOp.op = "TakeSnapshot" => MayHaveUncommittedOpsAtOrBefore(taken_snap, t)

\* A snapshot has just been taken while the op at all_committed_before_ is
\* in flight and a later timestamp is already committed.
C38_Witness ==
    /\ open_
    /\ lastOp.op = "TakeSnapshot"
    /\ acb \in InFlightNow
    /\ taken_snap.all_committed_before_ = acb
    /\ Len(taken_snap.committed_timestamps_) > 0
    /\ MayHaveUncommittedOpsAtOrBefore(taken_snap, acb)
    /\ ~MayHaveUncommittedOpsAtOrBefore(taken_snap, kMin)

\* C39: whenever CommitOp(t) applies AddCommittedTimestamp(t) to a snapshot
\* that does not yet consider t committed, for any t up to and including
\* kMax, the resulting none_committed_at_or_after_ is strictly greater than t
\* and not below all_committed_before_.
C39_AddCommittedRaisesUpperWatermark ==
    [][ \A t \in Ts :
           (CommitOp(t) /\ timestamps_in_flight_[t] = APPLYING /\ ~IsCommitted(cur_snap_, t))
           => LET s == AddCommittedTimestamp(cur_snap_, t)
              IN  /\ s.none_committed_at_or_after_ > t
                  /\ s.none_committed_at_or_after_ >= s.all_committed_before_ ]_vars


\* ----------------------------------------------------- Write op driver

\* The step is one of the WriteOpState entry points that release the MVCC op.
ReleaseStep ==
    \/ \E result \in OpResult : CommitOrAbort(result)
    \/ AbortPrepare
    \/ Reset
    \/ WriteOpStateDestroy

\* C40: the write op driver resolves its MVCC op at most once.  For every
\* op it was given, at most one CommitOp or AbortOp call is made; a handle it
\* still holds is unresolved; a ReleaseMvccTxn that returns leaves mvcc_op_
\* null and the ScopedOp destroyed; and CommitOrAbort, AbortPrepare, Reset and
\* the destructor of a WriteOpState whose mvcc_op_ is null make no call on
\* the manager at all.
C40_MvccOpResolvedAtMostOnce ==
    /\ [] /\ \A t \in Ts : resolve_calls[t] <= 1
          /\ mvcc_op_ # <<>> => /\ resolve_calls[mvcc_op_[1]] = 0
                                /\ scoped[mvcc_op_[1]] = "live"
    /\ [][ (ReleaseStep /\ mvcc_op_ # <<>> /\ ~crashed')
           => /\ mvcc_op_' = <<>>
              /\ scoped'[mvcc_op_[1]] = "none"
              /\ lastOp'.op \in {"CommitOp", "AbortOp"}
              /\ lastOp'.ts = mvcc_op_[1]
              /\ resolve_calls'[mvcc_op_[1]] = 1 ]_vars
    /\ [][ (ReleaseStep /\ mvcc_op_ = <<>>)
           => /\ UNCHANGED <<mgrVars, open_, waiters_, threads, close_pc, crashed,
                             commit_returned, scoped, writeVars>>
              /\ lastOp'.op \notin {"CommitOp", "AbortOp"} ]_vars

\* The driver committed its op, dropped the handle, and a later release
\* (CommitOrAbort, AbortPrepare, Reset or the destructor) has just run.
C40_Witness ==
    /\ ~crashed
    /\ lastOp.op = "ReleaseMvccTxn"
    /\ mvcc_op_ = <<>>
    /\ \E t \in Ts :
          /\ resolve_calls[t] = 1
          /\ t \in commit_returned
          /\ scoped[t] = "none"
          /\ timestamps_in_flight_[t] = NONE

====
